---- MODULE Spec2Model ----
(***************************************************************************)
(* A model of sunwalker-box's root filesystem engine (src/linux/rootfs.rs): *)
(* create_rootfs, configure_rootfs, enter_rootfs, reset, list_child_mounts  *)
(* and resolve_abs.                                                         *)
(*                                                                          *)
(* A path is the sequence of its components: "/newroot/dev/shm" is          *)
(* <<"newroot", "dev", "shm">>.  Mount targets in the mount table are       *)
(* normalised (no trailing slash), so `p.starts_with("/a/b/")` is "p is     *)
(* strictly longer than <<a, b>> and begins with it".                       *)
(***************************************************************************)
EXTENDS Integers, Sequences, FiniteSets, TLC

VARIABLES
    image,      \* the source image: top-level entry name -> [kind, target]
    files,      \* entries of the filesystem that holds /newroot: path -> [kind, target]
    mounts,     \* the kernel mount table of the namespace, in table order
    sbs,        \* the live tmpfs instances: id -> [uid, gid, entries]
    pc,         \* position of the controlling program
    state,      \* RootfsState.mount_points, as returned by create_rootfs
    loc,        \* the locals of the running call
    log,        \* the mount and unmount calls issued by the running call
    hist,       \* counters and the result of the last call
    walk,       \* a call of resolve_abs_box_root: input, symlinks, accumulator, frames
    ns,         \* the processes of configure_rootfs and enter_rootfs
    inv         \* a call of list_child_mounts on a mount table given as text

mountVars == <<image, files, mounts, sbs, pc, state, loc, log, hist>>
vars == <<image, files, mounts, sbs, pc, state, loc, log, hist, walk, ns, inv>>

\* a part of the program that a specification does not run
Off == [on |-> FALSE]

(***************************************************************************)
(* Bounds of the model.                                                     *)
(***************************************************************************)
MaxResets == 2      \* calls of reset in one behaviour
MaxExtra == 2       \* mounts made between calls by whatever ran in the sandbox
MaxPathLen == 2     \* components of a path given to resolve_abs_box_root
NInstances == 2     \* sandbox instances running side by side
MaxLines == 3       \* lines of a mount table given as text
MaxPty == 3         \* pseudo-terminals open at a time
MaxListed == 2      \* entries of a listing given to the marking loop alone
MaxCalls == 2       \* calls of configure_rootfs or enter_rootfs made out of turn

(***************************************************************************)
(* Paths.                                                                   *)
(***************************************************************************)
NEWROOT == <<"newroot">>
Under(name) == <<"newroot", name>>
DEV_SHM == <<"newroot", "dev", "shm">>
TMP == <<"newroot", "tmp">>
SPACE == <<"newroot", "space">>

\* str::starts_with for a prefix that names a directory and ends with '/'
StartsWithDir(path, dir) ==
    /\ Len(path) > Len(dir)
    /\ SubSeq(path, 1, Len(dir)) = dir

Count(f, p) == IF p \in DOMAIN f THEN f[p] ELSE 0

\* the number of entries of a listing that equal p
Occurrences(s, p) == Cardinality({i \in 1..Len(s) : s[i] = p})

RemoveAt(s, i) == SubSeq(s, 1, i - 1) \o SubSeq(s, i + 1, Len(s))

(***************************************************************************)
(* The kernel's mount table.  A mount is                                    *)
(*   [target, fstype, src, ro, sb, size, nr_inodes, parent]                 *)
(* and the table lists mounts in the order they were attached, which is the *)
(* order of /proc/self/mounts.  Mount 1 is the root mount; parent is the    *)
(* place in the table of the mount the mount point was looked up in.        *)
(***************************************************************************)
Mnt(target, fstype, src, sb) ==
    [target |-> target, fstype |-> fstype, src |-> src, ro |-> FALSE, sb |-> sb,
     size |-> 0, nr_inodes |-> 0, parent |-> 0]

RECURSIVE Walk(_, _, _, _)
\* Path lookup: from mount cur, with the first n components of p walked, cross into
\* the mount attached at that point of cur (and into what is stacked on it), then go on.
Walk(ms, cur, p, n) ==
    LET kids == {i \in 1..Len(ms) : ms[i].parent = cur /\ ms[i].target = SubSeq(p, 1, n)}
    IN  IF kids # {} THEN Walk(ms, CHOOSE i \in kids : TRUE, p, n)
        ELSE IF n >= Len(p) THEN cur
        ELSE Walk(ms, cur, p, n + 1)

\* the mount a path is looked up in
Visible(ms, p) == Walk(ms, 1, p, 0)

\* mount(2): the new mount goes to the end of the table, on the mount its target is
\* looked up in
Attach(ms, m) == Append(ms, [m EXCEPT !.parent = Visible(ms, m.target)])

RECURSIVE AttachAll(_, _)
AttachAll(ms, new) ==
    IF new = <<>> THEN ms ELSE AttachAll(Attach(ms, Head(new)), Tail(new))

\* umount(2) without flags: "OK", or the error it fails with
UmountResult(ms, p) ==
    LET v == Visible(ms, p)
    IN  IF ms[v].target # p \/ v = 1 THEN "EINVAL"
        ELSE IF \E i \in 1..Len(ms) : ms[i].parent = v THEN "EBUSY"
        ELSE "OK"

\* the table after a successful umount(p): the mount on top at p is detached
Umounted(ms, p) ==
    LET v == Visible(ms, p)
        rest == RemoveAt(ms, v)
    IN  [i \in 1..Len(rest) |-> [rest[i] EXCEPT !.parent = IF @ > v THEN @ - 1 ELSE @]]

\* mount(2) with MS_REMOUNT | MS_RDONLY: flags of the mount on top at p
Remounted(ms, p) == [ms EXCEPT ![Visible(ms, p)].ro = TRUE]

\* the mount targets of the table, in table order
Targets(ms) == [i \in 1..Len(ms) |-> ms[i].target]

\* a tmpfs instance lives as long as a mount refers to it
LiveSbs(s, ms) == [id \in {i \in DOMAIN s : \E k \in 1..Len(ms) : ms[k].sb = i} |-> s[id]]

(***************************************************************************)
(* The inputs: the source image and the host's /dev.                       *)
(***************************************************************************)
Dir == [kind |-> "dir", target |-> ""]
File == [kind |-> "file", target |-> ""]
Other == [kind |-> "other", target |-> ""]
Symlink(t) == [kind |-> "symlink", target |-> t]

EmptyMap == [x \in {} |-> 0]

\* A file name is the bytes the directory holds.  A byte below 0x80 is written as its
\* character, any other as "x" and its two hex digits.  The entries of an image are
\* known by a handle, file_name gives the bytes: caf_E9 is "caf\xE9", Latin-1.
FileNameBytes ==
    [bin |-> <<"b", "i", "n">>, init |-> <<"i", "n", "i", "t">>, sys |-> <<"s", "y", "s">>,
     tmp |-> <<"t", "m", "p">>, caf_E9 |-> <<"c", "a", "f", "xE9">>]

\* entry.file_name()
file_name(entry) == FileNameBytes[entry]

\* the root a call of create_rootfs is given, and one that is not UTF-8
ImageRoot == <<"/", "i", "m", "g">>
ImageRootLatin1 == <<"/", "i", "m", "xE9">>

\* entry.path(): the root joined with the file name
EntryPath(root, entry) == root \o <<"/">> \o file_name(entry)

\* an image with an entry whose name is not UTF-8
NotUtf8Images == { [bin |-> Dir, caf_E9 |-> Dir, sys |-> Dir] }

\* the images the reset behaviours start from
Images == { [bin |-> Dir, init |-> Symlink("/bin/init"), sys |-> Dir] } \cup NotUtf8Images

\* every image over these names, for the behaviours of create_rootfs alone
ImageNames == {"bin", "init", "sys", "tmp"}
EntryKinds == {Dir, File, Other, Symlink("/bin/init")}
AllImages == UNION {[S -> EntryKinds] : S \in SUBSET ImageNames}

\* the devpts instance of the host
DevptsSb == -1

\* the mounts the host may have beneath /dev, in table order
DevSubmounts == << <<"pts">>, <<"shm">>, <<"shm", "x">>, <<"mqueue">> >>
DevSets ==
    { {<<"pts">>},
      {<<"pts">>, <<"shm">>, <<"mqueue">>},
      {<<"pts">>, <<"shm">>, <<"shm", "x">>} }
HostTable(S) ==
    LET subs == SelectSeq(DevSubmounts, LAMBDA n : n \in S)
    IN  AttachAll(<<Mnt(<<>>, "rootfs", <<"none">>, 0)>>,
                  <<Mnt(<<"dev">>, "devtmpfs", <<"none">>, 0)>>
                  \o [i \in 1..Len(subs) |->
                        IF subs[i] = <<"pts">>
                        THEN Mnt(<<"dev", "pts">>, "devpts", <<"devpts">>, DevptsSb)
                        ELSE Mnt(<<"dev">> \o subs[i], "tmpfs", <<"none">>, 0)])

\* the names in the host's /dev/pts: ptmx and one entry for every open pseudo-terminal,
\* named by its number in decimal
Digits == <<"0", "1", "2", "3", "4", "5", "6", "7", "8", "9">>
RECURSIVE Decimal(_)
Decimal(n) == IF n < 10 THEN <<Digits[n + 1]>> ELSE Append(Decimal(n \div 10), Digits[(n % 10) + 1])
PTMX == <<"p", "t", "m", "x">>
PtsNames(open) == {PTMX} \cup {Decimal(n) : n \in open}
Devpts(open) == [owner |-> [uid |-> "root", gid |-> "root"],
                 entries |-> [name \in PtsNames(open) |-> [kind |-> "chr"]]]

NoQuotas == [space |-> 0, max_inodes |-> 0]
Quotas == {[space |-> 104857600, max_inodes |-> 1000], [space |-> 4096, max_inodes |-> 16]}

Locals ==
    [todo |-> {}, cur |-> "", idx |-> 0, mount_points |-> EmptyMap,
     paths_to_umount |-> <<>>, current_mounts |-> <<>>, quotas |-> NoQuotas,
     table |-> <<>>, root |-> ImageRoot]

History ==
    [resets |-> 0, extras |-> 0, configured |-> FALSE, last |-> "none", err |-> "",
     failedAt |-> "", snap |-> EmptyMap, prevSnap |-> EmptyMap, clean |-> FALSE,
     repeat |-> FALSE, q |-> NoQuotas, freed |-> {}, ptyAfter |-> -1]

InitWith(imgs, devs, ptys) ==
    /\ image \in imgs
    /\ \E S \in devs, open \in ptys :
          /\ mounts = HostTable(S)
          /\ sbs = IF <<"pts">> \in S THEN DevptsSb :> Devpts(open) ELSE EmptyMap
    /\ files = EmptyMap
    /\ pc = "c_mkdir_newroot"
    /\ state = EmptyMap
    /\ loc = Locals
    /\ log = <<>>
    /\ hist = History
    /\ walk = Off
    /\ ns = Off
    /\ inv = Off

\* the host has one pseudo-terminal open when the sandbox is set up
Init == InitWith(Images, DevSets, {{0}})

InitCreate == InitWith(AllImages \cup NotUtf8Images, {{}, {<<"pts">>, <<"shm">>, <<"mqueue">>}}, {{}})

Op(op, path, res, phase) == [op |-> op, path |-> path, res |-> res, phase |-> phase]

(***************************************************************************)
(* MountInventory, as the callers in this file use it: the table is the     *)
(* kernel's own text, so every line has its fields.                         *)
(***************************************************************************)
list_child_mounts(ms, prefix) ==
    SelectSeq(Targets(ms), LAMBDA t : StartsWithDir(t, prefix))

(***************************************************************************)
(* create_rootfs                                                            *)
(***************************************************************************)
\* the bytes that begin a sequence of two and of three bytes, and those that continue one
Lead2 == {"xC3"}
Lead3 == {"xE9"}
Continuation == {"xA9", "xBF"}
NeverValid == {"xFF"}
Ascii(b) == b \notin Lead2 \cup Lead3 \cup Continuation \cup NeverValid

RECURSIVE from_utf8(_)
\* std::str::from_utf8(bytes).is_ok()
from_utf8(bytes) ==
    \/ bytes = <<>>
    \/ Ascii(Head(bytes)) /\ from_utf8(Tail(bytes))
    \/ /\ Head(bytes) \in Lead2
       /\ Len(bytes) >= 2 /\ bytes[2] \in Continuation
       /\ from_utf8(SubSeq(bytes, 3, Len(bytes)))
    \/ /\ Head(bytes) \in Lead3
       /\ Len(bytes) >= 3 /\ bytes[2] \in Continuation /\ bytes[3] \in Continuation
       /\ from_utf8(SubSeq(bytes, 4, Len(bytes)))

\* into_string with OsStr::to_string_lossy in its place: every name decodes
to_string_lossy(os) == [ok |-> TRUE, bytes |-> os]

\* OsString::into_string(): Ok(String) when the bytes are UTF-8, else Err(the OsString)
into_string(os) == [ok |-> from_utf8(os), bytes |-> os]

\* ReservedNames with /sys cloned like any other entry
ReservedNamesWithoutSys == {"space", "dev", "proc", "tmp"}

ReservedNames == {"space", "dev", "proc", "tmp", "sys"}
EphemeralDirs == <<"space", "dev", "proc", "tmp">>

\* std::fs::create_dir("/newroot")
CreateNewroot ==
    /\ pc = "c_mkdir_newroot"
    /\ NEWROOT \notin DOMAIN files
    /\ files' = (NEWROOT :> Dir) @@ files
    /\ pc' = "c_read_dir"
    /\ UNCHANGED <<image, mounts, sbs, state, loc, log, hist, walk, ns, inv>>

\* std::fs::read_dir(root): the entries come in no particular order
CreateReadDir ==
    /\ pc = "c_read_dir"
    /\ loc' = [loc EXCEPT !.todo = DOMAIN image]
    /\ pc' = "c_entry"
    /\ UNCHANGED <<image, files, mounts, sbs, state, log, hist, walk, ns, inv>>

\* both decodes of an entry that is cloned went well
Decoded(name) ==
    /\ into_string(file_name(name)).ok
    /\ into_string(EntryPath(loc.root, name)).ok

\* entry.file_name().into_string().map_err(..)?, and for an entry that is cloned
\* entry.path().into_os_string().into_string().map_err(..)?
CreateEntryNotUtf8 ==
    /\ pc = "c_entry"
    /\ \E name \in loc.todo :
          IF name \in ReservedNames THEN ~into_string(file_name(name)).ok
                                    ELSE ~Decoded(name)
    /\ hist' = [hist EXCEPT !.last = "Err", !.err = "NotUtf8", !.failedAt = pc]
    /\ pc' = "failed"
    /\ UNCHANGED <<image, files, mounts, sbs, state, loc, log, walk, ns, inv>>

\* an entry the loop leaves out
CreateEntryReserved ==
    /\ pc = "c_entry"
    /\ \E name \in loc.todo :
          /\ into_string(file_name(name)).ok
          /\ name \in ReservedNames
          /\ loc' = [loc EXCEPT !.todo = @ \ {name}]
    /\ UNCHANGED <<image, files, mounts, sbs, pc, state, log, hist, walk, ns, inv>>

\* a symlink is recreated, never bind-mounted
CreateEntrySymlink ==
    /\ pc = "c_entry"
    /\ \E name \in loc.todo :
          /\ Decoded(name)
          /\ name \notin ReservedNames
          /\ image[name].kind = "symlink"
          /\ Under(name) \notin DOMAIN files
          /\ files' = (Under(name) :> Symlink(image[name].target)) @@ files
          /\ loc' = [loc EXCEPT !.todo = @ \ {name}]
    /\ UNCHANGED <<image, mounts, sbs, pc, state, log, hist, walk, ns, inv>>

\* the placeholder a bind mount goes on: a directory for a directory, else a file
Placeholder(kind) == IF kind = "dir" THEN Dir ELSE File

CreateEntryPlaceholder ==
    /\ pc = "c_entry"
    /\ \E name \in loc.todo :
          /\ Decoded(name)
          /\ name \notin ReservedNames
          /\ image[name].kind # "symlink"
          /\ Under(name) \notin DOMAIN files
          /\ files' = (Under(name) :> Placeholder(image[name].kind)) @@ files
          /\ loc' = [loc EXCEPT !.todo = @ \ {name}, !.cur = name]
    /\ pc' = "c_bind"
    /\ UNCHANGED <<image, mounts, sbs, state, log, hist, walk, ns, inv>>

\* system::bind_mount(source_path, target_path)
CreateBind ==
    /\ pc = "c_bind"
    /\ mounts' = Attach(mounts, Mnt(Under(loc.cur), "bind", <<"image", loc.cur>>, 0))
    /\ log' = Append(log, Op("bind", Under(loc.cur), "OK", "image"))
    /\ pc' = "c_remount"
    /\ UNCHANGED <<image, files, sbs, state, loc, hist, walk, ns, inv>>

\* system::bind_mount_opt("none", target_path, MS_REMOUNT | MS_RDONLY)
CreateRemount ==
    /\ pc = "c_remount"
    /\ mounts' = Remounted(mounts, Under(loc.cur))
    /\ log' = Append(log, Op("remount_ro", Under(loc.cur), "OK", "image"))
    /\ pc' = "c_entry"
    /\ UNCHANGED <<image, files, sbs, state, loc, hist, walk, ns, inv>>

CreateEntriesDone ==
    /\ pc = "c_entry"
    /\ loc.todo = {}
    /\ loc' = [loc EXCEPT !.idx = 1, !.cur = ""]
    /\ pc' = "c_ephemeral"
    /\ UNCHANGED <<image, files, mounts, sbs, state, log, hist, walk, ns, inv>>

\* for name in ["space", "dev", "proc", "tmp"]: create_dir
CreateEphemeralDir ==
    /\ pc = "c_ephemeral"
    /\ Under(EphemeralDirs[loc.idx]) \notin DOMAIN files
    /\ files' = (Under(EphemeralDirs[loc.idx]) :> Dir) @@ files
    /\ IF loc.idx < Len(EphemeralDirs)
         THEN /\ loc' = [loc EXCEPT !.idx = @ + 1]
              /\ pc' = pc
         ELSE /\ loc' = [loc EXCEPT !.idx = 0]
              /\ pc' = "c_bind_dev"
    /\ UNCHANGED <<image, mounts, sbs, state, log, hist, walk, ns, inv>>

\* a recursive bind mount copies the mount at the source and the mounts beneath it
RecursiveBind(ms, src, dst) ==
    LET copy(m) == [m EXCEPT !.target = dst \o SubSeq(m.target, Len(src) + 1, Len(m.target)),
                             !.src = m.target, !.fstype = "bind"]
        sel == SelectSeq(ms, LAMBDA m : m.target = src \/ StartsWithDir(m.target, src))
    IN  AttachAll(ms, [i \in 1..Len(sel) |-> copy(sel[i])])

\* system::bind_mount_opt("/dev", "/newroot/dev", MS_REC)
CreateBindDev ==
    /\ pc = "c_bind_dev"
    /\ mounts' = RecursiveBind(mounts, <<"dev">>, Under("dev"))
    /\ log' = Append(log, Op("rbind", Under("dev"), "OK", "dev"))
    /\ pc' = "c_remount_dev"
    /\ UNCHANGED <<image, files, sbs, state, loc, hist, walk, ns, inv>>

\* system::bind_mount_opt("none", "/newroot/dev", MS_REMOUNT | MS_RDONLY)
CreateRemountDev ==
    /\ pc = "c_remount_dev"
    /\ mounts' = Remounted(mounts, Under("dev"))
    /\ log' = Append(log, Op("remount_ro", Under("dev"), "OK", "dev"))
    /\ pc' = "c_snapshot"
    /\ UNCHANGED <<image, files, sbs, state, loc, hist, walk, ns, inv>>

\* for path in list_child_mounts("/newroot/")?: *entry(path).or_insert(0) += 1
CountPaths(listing) ==
    [p \in {listing[i] : i \in 1..Len(listing)} |-> Occurrences(listing, p)]

CreateSnapshot ==
    /\ pc = "c_snapshot"
    /\ state' = CountPaths(list_child_mounts(mounts, NEWROOT))
    /\ hist' = [hist EXCEPT !.last = "Ok"]
    /\ pc' = "idle"
    /\ UNCHANGED <<image, files, mounts, sbs, loc, log, walk, ns, inv>>

\* any filesystem or mount call of create_rootfs may fail: the ? returns at once
CreateFail ==
    /\ pc \in {"c_mkdir_newroot", "c_read_dir", "c_entry", "c_bind", "c_remount",
               "c_ephemeral", "c_bind_dev", "c_remount_dev", "c_snapshot"}
    /\ hist' = [hist EXCEPT !.last = "Err", !.err = "EIO", !.failedAt = pc]
    /\ pc' = "failed"
    /\ UNCHANGED <<image, files, mounts, sbs, state, loc, log, walk, ns, inv>>

create_rootfs ==
    \/ CreateNewroot
    \/ CreateReadDir
    \/ CreateEntryNotUtf8
    \/ CreateEntryReserved
    \/ CreateEntrySymlink
    \/ CreateEntryPlaceholder
    \/ CreateBind
    \/ CreateRemount
    \/ CreateEntriesDone
    \/ CreateEphemeralDir
    \/ CreateBindDev
    \/ CreateRemountDev
    \/ CreateSnapshot
    \/ CreateFail

SpecCreate == InitCreate /\ [][create_rootfs]_vars

(***************************************************************************)
(* reset                                                                    *)
(***************************************************************************)
PROC == <<"newroot", "proc">>
DEV_MQUEUE == <<"newroot", "dev", "mqueue">>

INTERNAL_USER == [uid |-> "INTERNAL_USER_UID", gid |-> "INTERNAL_USER_GID"]
INTERNAL_ROOT == [uid |-> "INTERNAL_ROOT_UID", gid |-> "INTERNAL_ROOT_GID"]
Caller == [uid |-> "root", gid |-> "root"]

\* Rebinds without /newroot/tmp
RebindsWithoutTmp == <<[path |-> DEV_SHM, orig_path |-> <<"newroot", "space", ".shm">>]>>

\* the (path, orig_path) pairs of the rebind loop
Rebinds ==
    <<[path |-> DEV_SHM, orig_path |-> <<"newroot", "space", ".shm">>],
      [path |-> TMP, orig_path |-> <<"newroot", "space", ".tmp">>]>>

\* Exempt with all that lies beneath /newroot/dev/mqueue passed over as well
ExemptMqueueTree(path) ==
    \/ path = PROC \/ StartsWithDir(path, PROC)
    \/ path = DEV_MQUEUE \/ StartsWithDir(path, DEV_MQUEUE)

\* the paths the marking loop passes over
Exempt(path) == path = PROC \/ StartsWithDir(path, PROC) \/ path = DEV_MQUEUE

\* Mark with the baseline left out of the comparison: every listed path is marked
MarkIgnoringBaseline(current, i, mp, out) ==
    [mount_points |-> mp,
     paths_to_umount |-> SelectSeq(current, LAMBDA path : ~Exempt(path))]

\* Mark with nothing ever marked
MarkNothing(current, i, mp, out) == [mount_points |-> mp, paths_to_umount |-> <<>>]

RECURSIVE MarkOffByOne(_, _, _, _)
\* Mark with the test `*entry <= 1` in place of `*entry == 0`
MarkOffByOne(current, i, mp, out) ==
    IF i > Len(current) THEN [mount_points |-> mp, paths_to_umount |-> out]
    ELSE LET path == current[i]
             entry == (path :> 0) @@ mp
         IN  IF Exempt(path) THEN MarkOffByOne(current, i + 1, mp, out)
             ELSE IF (mp @@ entry)[path] <= 1
                  THEN MarkOffByOne(current, i + 1, mp @@ entry, Append(out, path))
                  ELSE MarkOffByOne(current, i + 1, [mp EXCEPT ![path] = @ - 1], out)

\* Mark with the last occurrences of a path kept for the baseline, not the first
MarkKeepingLast(current, i, mp, out) ==
    LET after(k) == Cardinality({j \in (k + 1)..Len(current) : current[j] = current[k]})
        marked(k) == ~Exempt(current[k]) /\ after(k) >= Count(mp, current[k])
        pick[k \in 1..(Len(current) + 1)] ==
            IF k > Len(current) THEN <<>>
            ELSE (IF marked(k) THEN <<current[k]>> ELSE <<>>) \o pick[k + 1]
    IN  [mount_points |-> mp, paths_to_umount |-> pick[1]]

RECURSIVE Mark(_, _, _, _)
\* for path in &current_mounts: count down the baseline, mark what exceeds it
Mark(current, i, mp, out) ==
    IF i > Len(current) THEN [mount_points |-> mp, paths_to_umount |-> out]
    ELSE LET path == current[i]
             entry == (path :> 0) @@ mp      \* entry(path).or_insert(0)
         IN  IF Exempt(path) THEN Mark(current, i + 1, mp, out)
             ELSE IF (mp @@ entry)[path] = 0
                  THEN Mark(current, i + 1, mp @@ entry, Append(out, path))
                  ELSE Mark(current, i + 1, [mp EXCEPT ![path] = @ - 1], out)

\* NextToUmount without .rev(): the loop takes the paths in the order of the listing
InListingOrder(paths) == paths[1]

\* the path the loop over paths_to_umount.into_iter().rev() takes next
NextToUmount(paths) == paths[Len(paths)]
RestToUmount(paths) == SubSeq(paths, 1, Len(paths) - 1)

ResetFailed(at, e) == [hist EXCEPT !.last = "Err", !.err = e, !.failedAt = at]

\* Borrowed with the marking loop counting down the RootfsState itself
CountedInPlace(baseline, working) == working

\* state: &RootfsState is copied into the local mount_points (lines 152-155), and the
\* loop counts down the copy: the RootfsState after the loop
Borrowed(baseline, working) == baseline

\* lines 152-170: copy the baseline, list the mounts, mark
ResetMark ==
    /\ pc = "idle"
    /\ hist.resets < MaxResets
    /\ \E q \in Quotas :
          LET current == list_child_mounts(mounts, NEWROOT)
              marked == Mark(current, 1, state, <<>>)
          IN  loc' = [loc EXCEPT !.quotas = q,
                                 !.current_mounts = current,
                                 !.table = mounts,
                                 !.mount_points = marked.mount_points,
                                 !.paths_to_umount = marked.paths_to_umount]
    /\ hist' = [hist EXCEPT !.resets = @ + 1, !.last = "running", !.freed = {}, !.ptyAfter = -1]
    /\ state' = Borrowed(state, Mark(list_child_mounts(mounts, NEWROOT), 1, state, <<>>).mount_points)
    /\ log' = <<>>
    /\ pc' = "r_umount"
    /\ UNCHANGED <<image, files, mounts, sbs, walk, ns, inv>>

\* AfterUmountError with the loop going on after a failed unmount
RetriedAfterError == "r_umount"

\* system::umount(path).with_context(..)?: the error is returned at once
AfterUmountError == "failed"

\* system::umount(path) for the next marked path
ResetUmountMarked ==
    /\ pc = "r_umount"
    /\ loc.paths_to_umount # <<>>
    /\ LET path == NextToUmount(loc.paths_to_umount)
           res == UmountResult(mounts, path)
       IN  /\ log' = Append(log, Op("umount", path, res, "marked"))
           /\ IF res = "OK"
                THEN /\ mounts' = Umounted(mounts, path)
                     /\ sbs' = LiveSbs(sbs, mounts')
                     /\ loc' = [loc EXCEPT !.paths_to_umount = RestToUmount(@)]
                     /\ UNCHANGED <<pc, hist>>
                ELSE /\ hist' = ResetFailed(pc, res)
                     /\ pc' = AfterUmountError
                     /\ UNCHANGED <<mounts, sbs, loc>>
    /\ UNCHANGED <<image, files, state, walk, ns, inv>>

\* Tmpfs with the two quota fields in each other's place
TmpfsSwapped(q, id) ==
    [Mnt(SPACE, "tmpfs", <<"none">>, id) EXCEPT !.size = q.max_inodes, !.nr_inodes = q.space]

\* system::mount("none", "/newroot/space", "tmpfs", MS_NOSUID, "size=..,nr_inodes=..")
Tmpfs(q, id) ==
    [Mnt(SPACE, "tmpfs", <<"none">>, id) EXCEPT !.size = q.space, !.nr_inodes = q.max_inodes]

ResetMountSpace ==
    /\ pc = "r_umount"
    /\ loc.paths_to_umount = <<>>
    /\ mounts' = Attach(mounts, Tmpfs(loc.quotas, hist.resets))
    /\ sbs' = (hist.resets :> [owner |-> Caller, entries |-> EmptyMap]) @@ sbs
    /\ log' = Append(log, Op("mount", SPACE, "OK", "space"))
    /\ pc' = "r_chown_space"
    /\ UNCHANGED <<image, files, state, loc, hist, walk, ns, inv>>

\* the tmpfs instance a path beneath /newroot/space is looked up in (0: none)
SbAt(ms, path) == ms[Visible(ms, path)].sb

\* std::os::unix::fs::chown("/newroot/space", INTERNAL_USER_UID, INTERNAL_USER_GID)
ResetChownSpace ==
    /\ pc = "r_chown_space"
    /\ SbAt(mounts, SPACE) \in DOMAIN sbs
    /\ sbs' = [sbs EXCEPT ![SbAt(mounts, SPACE)].owner = INTERNAL_USER]
    /\ loc' = [loc EXCEPT !.idx = 1]
    /\ pc' = "r_mkdir"
    /\ UNCHANGED <<image, files, mounts, state, log, hist, walk, ns, inv>>

DirName(path) == path[Len(path)]

\* std::fs::create_dir(orig_path)
ResetMkdir ==
    /\ pc = "r_mkdir"
    /\ LET orig == Rebinds[loc.idx].orig_path
           sb == SbAt(mounts, orig)
       IN  /\ sb \in DOMAIN sbs
           /\ IF DirName(orig) \in DOMAIN sbs[sb].entries
                THEN /\ hist' = ResetFailed(pc, "EEXIST")
                     /\ pc' = "failed"
                     /\ UNCHANGED sbs
                ELSE /\ sbs' = [sbs EXCEPT ![sb].entries =
                                    (DirName(orig) :> [owner |-> Caller, mode |-> "0755"]) @@ @]
                     /\ pc' = "r_chown"
                     /\ UNCHANGED hist
    /\ UNCHANGED <<image, files, mounts, state, loc, log, walk, ns, inv>>

\* std::os::unix::fs::chown(orig_path, INTERNAL_ROOT_UID, INTERNAL_ROOT_GID)
ResetChown ==
    /\ pc = "r_chown"
    /\ LET orig == Rebinds[loc.idx].orig_path
       IN  sbs' = [sbs EXCEPT ![SbAt(mounts, orig)].entries[DirName(orig)].owner = INTERNAL_ROOT]
    /\ pc' = "r_chmod"
    /\ UNCHANGED <<image, files, mounts, state, loc, log, hist, walk, ns, inv>>

\* the mode create_dir leaves on the directory, kept
ModeOfMkdir == "0755"

\* std::os::unix::fs::PermissionsExt::from_mode(0o1777)
RebindMode == "1777"

\* std::fs::set_permissions(orig_path, from_mode(0o1777))
ResetChmod ==
    /\ pc = "r_chmod"
    /\ LET orig == Rebinds[loc.idx].orig_path
       IN  sbs' = [sbs EXCEPT ![SbAt(mounts, orig)].entries[DirName(orig)].mode = RebindMode]
    /\ pc' = "r_umount_old"
    /\ UNCHANGED <<image, files, mounts, state, loc, log, hist, walk, ns, inv>>

\* Tolerated with every error of the unmount passed over
ToleratesAll(res) == TRUE

\* if let Err(e) = system::umount(path): InvalidInput is passed over
Tolerated(res) == res = "EINVAL"

ResetUmountOld ==
    /\ pc = "r_umount_old"
    /\ LET path == Rebinds[loc.idx].path
           res == UmountResult(mounts, path)
       IN  /\ log' = Append(log, Op("umount", path, res, "rebind"))
           /\ IF res = "OK"
                THEN /\ mounts' = Umounted(mounts, path)
                     /\ pc' = "r_bind"
                     /\ UNCHANGED hist
                ELSE IF Tolerated(res)
                THEN /\ pc' = "r_bind"
                     /\ UNCHANGED <<mounts, hist>>
                ELSE /\ hist' = ResetFailed(pc, res)
                     /\ pc' = "failed"
                     /\ UNCHANGED mounts
    /\ sbs' = LiveSbs(sbs, mounts')
    /\ UNCHANGED <<image, files, state, loc, walk, ns, inv>>

\* system::bind_mount(orig_path, path)
ResetBind ==
    /\ pc = "r_bind"
    /\ LET r == Rebinds[loc.idx]
       IN  /\ mounts' = Attach(mounts, Mnt(r.path, "bind", r.orig_path, SbAt(mounts, r.orig_path)))
           /\ log' = Append(log, Op("bind", r.path, "OK", "rebind"))
    /\ IF loc.idx < Len(Rebinds)
         THEN /\ loc' = [loc EXCEPT !.idx = @ + 1]
              /\ pc' = "r_mkdir"
         ELSE /\ loc' = [loc EXCEPT !.idx = 0]
              /\ pc' = "r_pts"
    /\ UNCHANGED <<image, files, sbs, state, hist, walk, ns, inv>>

\* the mount targets under /newroot/, with their multiplicities
LiveCounts(ms) == CountPaths(list_child_mounts(ms, NEWROOT))

PTS == <<"newroot", "dev", "pts">>

U64_MAX ==
    <<"1", "8", "4", "4", "6", "7", "4", "4", "0", "7",
      "3", "7", "0", "9", "5", "5", "1", "6", "1", "5">>

IsDigit(c) == \E k \in 1..10 : Digits[k] = c
DigitValue(c) == CHOOSE k \in 0..9 : Digits[k + 1] = c

RECURSIVE StripZeros(_)
StripZeros(d) == IF d # <<>> /\ Head(d) = "0" THEN StripZeros(Tail(d)) ELSE d

RECURSIVE NoGreater(_, _)
\* of two digit strings of one length, the first is no greater than the second
NoGreater(a, b) ==
    \/ a = <<>>
    \/ DigitValue(Head(a)) < DigitValue(Head(b))
    \/ Head(a) = Head(b) /\ NoGreater(Tail(a), Tail(b))

\* parses_u64 with the test turned round: the names that do not parse
ParsesNot(name) == ~(name # <<>> /\ \A i \in 1..Len(name) : IsDigit(name[i]))

\* file_name.parse::<u64>().is_ok(): an optional '+', then one digit or more, of a
\* value that fits 64 bits
parses_u64(name) ==
    LET d == IF name # <<>> /\ Head(name) = "+" THEN Tail(name) ELSE name
        v == StripZeros(d)
    IN  /\ d # <<>>
        /\ \A i \in 1..Len(d) : IsDigit(d[i])
        /\ Len(v) < Len(U64_MAX) \/ (Len(v) = Len(U64_MAX) /\ NoGreater(v, U64_MAX))

Without(entries, name) == [n \in DOMAIN entries \ {name} |-> entries[n]]

\* std::fs::read_dir("/newroot/dev/pts")
ResetReadPts ==
    /\ pc = "r_pts"
    /\ IF SbAt(mounts, PTS) \in DOMAIN sbs
         THEN /\ loc' = [loc EXCEPT !.todo = DOMAIN sbs[SbAt(mounts, PTS)].entries]
              /\ pc' = "r_pts_entry"
              /\ UNCHANGED hist
         ELSE /\ hist' = ResetFailed(pc, "ENOENT")
              /\ pc' = "failed"
              /\ UNCHANGED loc
    /\ UNCHANGED <<image, files, mounts, sbs, state, log, walk, ns, inv>>

\* one entry of the directory: if let Ok(file_name) = entry.file_name().into_string(),
\* std::fs::remove_file(entry.path()) if the name parses
ResetPtsEntry ==
    /\ pc = "r_pts_entry"
    /\ \E name \in loc.todo :
          /\ loc' = [loc EXCEPT !.todo = @ \ {name}]
          /\ IF into_string(name).ok /\ parses_u64(name)
               THEN /\ sbs' = [sbs EXCEPT ![SbAt(mounts, PTS)].entries = Without(@, name)]
                    /\ hist' = [hist EXCEPT !.freed = @ \cup {name}]
               ELSE UNCHANGED <<sbs, hist>>
    /\ UNCHANGED <<image, files, mounts, pc, state, log, walk, ns, inv>>

\* Ok(())
ResetReturn ==
    /\ pc = "r_pts_entry"
    /\ loc.todo = {}
    /\ hist' = [hist EXCEPT !.last = "Ok",
                            !.prevSnap = hist.snap,
                            !.snap = LiveCounts(mounts),
                            !.repeat = hist.clean /\ hist.q = loc.quotas,
                            !.clean = TRUE,
                            !.q = loc.quotas]
    /\ pc' = "idle"
    /\ UNCHANGED <<image, files, mounts, sbs, state, loc, log, walk, ns, inv>>

\* any call of reset may fail for a reason outside the mount table
ResetFail ==
    /\ pc \in {"r_umount", "r_chown_space", "r_mkdir", "r_chown", "r_chmod",
               "r_umount_old", "r_bind", "r_pts", "r_pts_entry"}
    /\ hist' = ResetFailed(pc, "EIO")
    /\ pc' = "failed"
    /\ UNCHANGED <<image, files, mounts, sbs, state, loc, log, walk, ns, inv>>

reset ==
    \/ ResetMark
    \/ ResetUmountMarked
    \/ ResetMountSpace
    \/ ResetChownSpace
    \/ ResetMkdir
    \/ ResetChown
    \/ ResetChmod
    \/ ResetUmountOld
    \/ ResetBind
    \/ ResetReadPts
    \/ ResetPtsEntry
    \/ ResetReturn
    \/ ResetFail

(***************************************************************************)
(* What happens between calls: configure_rootfs mounts /newroot/proc, and   *)
(* whatever ran in the sandbox may have left mounts behind.                 *)
(***************************************************************************)
ExtraPaths ==
    {DEV_SHM, <<"newroot", "space", "x">>, Under("dev"), DEV_MQUEUE}

\* procs::mount_procfs("/newroot/proc"), as the mount table under /newroot/ sees
\* configure_rootfs
MountProcfs ==
    /\ pc = "idle"
    /\ ~hist.configured
    /\ hist.resets = 0
    /\ mounts' = Attach(mounts, Mnt(PROC, "proc", <<"proc">>, 0))
    /\ hist' = [hist EXCEPT !.configured = TRUE, !.clean = FALSE]
    /\ UNCHANGED <<image, files, sbs, pc, state, loc, log, walk, ns, inv>>

LeftoverMount ==
    /\ pc = "idle"
    /\ hist.extras < MaxExtra
    /\ \E p \in ExtraPaths : mounts' = Attach(mounts, Mnt(p, "extra", <<"none">>, 0))
    /\ hist' = [hist EXCEPT !.extras = @ + 1, !.clean = FALSE]
    /\ UNCHANGED <<image, files, sbs, pc, state, loc, log, walk, ns, inv>>

Next == create_rootfs \/ reset \/ MountProcfs \/ LeftoverMount

Spec == Init /\ [][Next]_vars

(***************************************************************************)
(* Pseudo-terminals.  The allocator issues the lowest number that names no  *)
(* entry of the devpts instance; closing a pseudo-terminal removes its      *)
(* entry.                                                                   *)
(***************************************************************************)
OpenNames == {name \in DOMAIN sbs[DevptsSb].entries : name # PTMX}
LowestFree == CHOOSE n \in 0..MaxPty : Decimal(n) \notin OpenNames /\ \A m \in 0..(n - 1) : Decimal(m) \in OpenNames

OpenPty ==
    /\ pc = "idle"
    /\ Cardinality(OpenNames) < MaxPty
    /\ sbs' = [sbs EXCEPT ![DevptsSb].entries = (Decimal(LowestFree) :> [kind |-> "chr"]) @@ @]
    /\ hist' = [hist EXCEPT !.clean = FALSE,
                            !.ptyAfter = IF hist.resets > 0 /\ @ = -1 THEN LowestFree ELSE @]
    /\ UNCHANGED <<image, files, mounts, pc, state, loc, log, walk, ns, inv>>

ClosePty ==
    /\ pc = "idle"
    /\ \E name \in OpenNames :
          sbs' = [sbs EXCEPT ![DevptsSb].entries = Without(@, name)]
    /\ hist' = [hist EXCEPT !.clean = FALSE]
    /\ UNCHANGED <<image, files, mounts, pc, state, loc, log, walk, ns, inv>>

\* a host with /dev/pts, /dev/shm and /dev/mqueue, with no pseudo-terminal open, with
\* number 0 open, or with numbers 1 and 2 open and 0 closed again
InitPts == InitWith(Images, {{<<"pts">>, <<"shm">>, <<"mqueue">>}}, {{}, {0}, {1, 2}})

SpecPts == InitPts /\ [][create_rootfs \/ reset \/ OpenPty \/ ClosePty]_vars

(***************************************************************************)
(* Properties of create_rootfs and reset.                                   *)
(***************************************************************************)
\* create_rootfs has returned its baseline
Created == pc = "idle" \/ hist.resets > 0

\* reset has just returned Ok
ResetOk == pc = "idle" /\ hist.resets > 0 /\ hist.last = "Ok"

Live(p) == Count(LiveCounts(mounts), p)

\* the unmounts the running (or last) reset has issued
Unmounts == {i \in 1..Len(log) : log[i].op = "umount"}

C2_ResetIdempotent ==
    (pc = "idle" /\ hist.repeat) => hist.snap = hist.prevSnap

C2_Witness ==
    /\ pc = "idle"
    /\ hist.repeat
    /\ DEV_SHM \in DOMAIN state
    /\ hist.snap = LiveCounts(mounts)

\* C5 as claimed: as long as nothing was mounted between the calls, no unmount of a
\* marked path fails, no mkdir finds its directory, the unmounts before rebinding end
\* with success or "not a mountpoint", and reset fails only for a reason outside the
\* mount table.
C5_ConsecutiveResetsSucceed ==
    hist.extras = 0 =>
        /\ \A i \in Unmounts :
              \/ log[i].res = "OK"
              \/ log[i].phase = "rebind" /\ log[i].res = "EINVAL"
        /\ (pc = "failed" /\ hist.resets > 0) => hist.err = "EIO"

\* the first reset after create_rootfs fails: /newroot/dev/shm, copied from the host
\* with a mount beneath it, cannot be unmounted
C5_FirstResetBusy ==
    /\ hist.extras = 0
    /\ hist.resets = 1
    /\ pc = "failed"
    /\ hist.failedAt = "r_umount_old"
    /\ hist.err = "EBUSY"
    /\ log[Len(log)] = Op("umount", DEV_SHM, "EBUSY", "rebind")
    /\ Count(state, DEV_SHM \o <<"x">>) = 1

RebindingShm(at) == at = "r_bind" /\ loc.idx = 1

SpaceMount == mounts[Visible(mounts, SPACE)]

SpaceIsQuotaTmpfs ==
    /\ SpaceMount.target = SPACE
    /\ SpaceMount.fstype = "tmpfs"
    /\ SpaceMount.sb = hist.resets
    /\ SpaceMount.size = loc.quotas.space
    /\ SpaceMount.nr_inodes = loc.quotas.max_inodes
    /\ sbs[SpaceMount.sb].owner = [uid |-> "INTERNAL_USER_UID", gid |-> "INTERNAL_USER_GID"]

\* C8 as claimed: when reset returns Ok, the mount on top at /newroot/space is the tmpfs
\* this reset mounted, of the size and inode ceiling of the quotas, owned by the
\* internal user, and it holds no entries.
C8_SpaceIsEmptyTmpfs ==
    ResetOk => SpaceIsQuotaTmpfs /\ DOMAIN sbs[SpaceMount.sb].entries = {}

\* C8 as amended: ... and it holds the two directories .shm and .tmp that this reset
\* made in it, and nothing else.
C8_SpaceIsFreshTmpfs ==
    ResetOk => SpaceIsQuotaTmpfs /\ DOMAIN sbs[SpaceMount.sb].entries = {".shm", ".tmp"}

C8_Witness ==
    /\ ResetOk
    /\ hist.resets = 1
    /\ loc.quotas = [space |-> 104857600, max_inodes |-> 1000]
    /\ SpaceMount.size = 104857600

\* the mounts whose target is p
MountsAt(p) == {i \in 1..Len(mounts) : mounts[i].target = p}

\* in the log of the call, a bind mount of p comes first and its read-only remount later
BindThenRemount(p) ==
    \E i, j \in 1..Len(log) :
        /\ i < j
        /\ log[i].op = "bind" /\ log[i].path = p
        /\ log[j].op = "remount_ro" /\ log[j].path = p
        /\ \A k \in 1..i : log[k].path = p => k = i

\* C7: after create_rootfs succeeds, every top-level entry of the image that is not
\* space, dev, proc, tmp or sys is, when a symlink, a symlink of the same target with no
\* mount on it, and otherwise a placeholder (a directory for a directory, else a file)
\* under one read-only bind mount of the entry made before its read-only remount;
\* /newroot/sys does not exist, space, dev, proc and tmp are directories, and nothing
\* is mounted at /newroot/space or /newroot/tmp.
C7_RootfsLayout ==
    (pc = "idle" /\ hist.resets = 0 /\ hist.extras = 0) =>
        /\ \A name \in DOMAIN image \ {"space", "dev", "proc", "tmp", "sys"} :
              IF image[name].kind = "symlink"
              THEN /\ files[Under(name)] = image[name]
                   /\ MountsAt(Under(name)) = {}
              ELSE /\ files[Under(name)].kind = (IF image[name].kind = "dir" THEN "dir" ELSE "file")
                   /\ Cardinality(MountsAt(Under(name))) = 1
                   /\ \A i \in MountsAt(Under(name)) :
                         /\ mounts[i].fstype = "bind"
                         /\ mounts[i].src = <<"image", name>>
                         /\ mounts[i].ro
                   /\ BindThenRemount(Under(name))
        /\ Under("sys") \notin DOMAIN files
        /\ \A d \in {"space", "dev", "proc", "tmp"} :
              Under(d) \in DOMAIN files /\ files[Under(d)].kind = "dir"
        /\ MountsAt(SPACE) = {} /\ MountsAt(TMP) = {}

C7_Witness ==
    /\ pc = "idle"
    /\ DOMAIN image = {"bin", "init", "sys", "tmp"}
    /\ image["bin"].kind = "other"
    /\ image["init"].kind = "symlink"
    /\ files[Under("init")].target = "/bin/init"
    /\ \E i \in MountsAt(Under("bin")) : mounts[i].ro

\* C11: reset never changes the baseline: from the return of create_rootfs on, no step
\* (of a reset that succeeds or fails, or between resets) changes the path-to-count
\* mapping of the RootfsState.
C11_BaselineNeverChanges == [][Created => state' = state]_vars

C11_Witness ==
    /\ ResetOk
    /\ hist.resets >= 2
    /\ state # EmptyMap
    /\ loc.mount_points # state

\* a name of digits only
AllDigits(name) == name # <<>> /\ \A i \in 1..Len(name) : name[i] \in {Digits[k] : k \in 1..10}

NumberOf(name) ==
    IF \E n \in 0..MaxPty : Decimal(n) = name
    THEN CHOOSE n \in 0..MaxPty : Decimal(n) = name
    ELSE -1
FreedNumbers == {NumberOf(name) : name \in hist.freed}
Lowest(S) == CHOOSE n \in S : \A m \in S : n <= m

\* reset has returned Ok and no pseudo-terminal was opened or closed since
JustReset == ResetOk /\ hist.clean

\* C12 as claimed: after a successful reset no entry with an all-digit name remains in
\* /newroot/dev/pts, and the first pseudo-terminal allocated after the reset gets the
\* lowest number that this reset freed.
C12_NextPtyIsLowestFreed ==
    /\ JustReset => \A name \in DOMAIN sbs[DevptsSb].entries : ~AllDigits(name)
    /\ (hist.ptyAfter # -1 /\ hist.freed # {}) => hist.ptyAfter = Lowest(FreedNumbers)

\* C12 as amended: after a successful reset no entry with an all-digit name remains in
\* /newroot/dev/pts, and the first pseudo-terminal allocated after the reset gets
\* number 0, which is no greater than any number this reset freed.
C12_NextPtyIsZero ==
    /\ JustReset => \A name \in DOMAIN sbs[DevptsSb].entries : ~AllDigits(name)
    /\ hist.ptyAfter # -1 =>
          /\ hist.ptyAfter = 0
          /\ \A n \in FreedNumbers : hist.ptyAfter <= n

C12_Witness ==
    /\ pc = "idle"
    /\ hist.last = "Ok"
    /\ FreedNumbers = {1, 2}
    /\ hist.ptyAfter = 0
    /\ PTMX \in DOMAIN sbs[DevptsSb].entries

\* the paths the running (or last) reset marked, and the unmounts it has made of them
MarkedPaths == Mark(loc.current_mounts, 1, state, <<>>).paths_to_umount
MarkedLog == SelectSeq(log, LAMBDA e : e.phase = "marked")

\* C16: reset unmounts the marked paths in exactly the reverse of the order of the mount
\* listing, so that a marked mount listed after another is unmounted before it, and no
\* marked path is unmounted while a mount made on it is itself still to be unmounted.
C16_MarkedUnmountedInReverse ==
    hist.resets > 0 =>
        /\ LET marked == MarkedPaths
               done == MarkedLog
           IN  \A k \in 1..Len(done) :
                   k <= Len(marked) /\ done[k].path = marked[Len(marked) + 1 - k]
        /\ (pc = "r_umount" /\ loc.paths_to_umount # <<>>) =>
              LET path == NextToUmount(loc.paths_to_umount)
                  later == RestToUmount(loc.paths_to_umount)
                  top == Visible(mounts, path)
              IN  mounts[top].target = path =>
                     \A j \in 1..Len(mounts) :
                         mounts[j].parent = top =>
                             \A k \in 1..Len(later) : later[k] # mounts[j].target

\* a reset has unmounted a marked child and then its marked parent
C16_Witness ==
    /\ ResetOk
    /\ Len(MarkedLog) = 2
    /\ MarkedLog[1].res = "OK" /\ MarkedLog[2].res = "OK"
    /\ StartsWithDir(MarkedLog[1].path, MarkedLog[2].path)
    /\ MarkedPaths = <<MarkedLog[2].path, MarkedLog[1].path>>

(***************************************************************************)
(* The marking loop by itself, on any listing and any baseline.             *)
(***************************************************************************)
ListedPaths ==
    {PROC, <<"newroot", "proc", "x">>, Under("procfoo"), DEV_MQUEUE,
     <<"newroot", "dev", "mqueue", "x">>}
Listings == UNION {[1..n -> ListedPaths] : n \in 0..MaxListed}
Baselines == UNION {[S -> {1, 2}] : S \in SUBSET ListedPaths}

InitMark ==
    /\ \E current \in Listings, baseline \in Baselines :
          /\ loc = [Locals EXCEPT !.current_mounts = current]
          /\ state = baseline
    /\ pc = "m_call"
    /\ image = [bin |-> Dir]
    /\ mounts = <<>>
    /\ files = EmptyMap
    /\ sbs = EmptyMap
    /\ log = <<>>
    /\ hist = History
    /\ walk = Off
    /\ ns = Off
    /\ inv = Off

\* lines 152-170
MarkCall ==
    /\ pc = "m_call"
    /\ LET marked == Mark(loc.current_mounts, 1, state, <<>>)
       IN  loc' = [loc EXCEPT !.mount_points = marked.mount_points,
                              !.paths_to_umount = marked.paths_to_umount]
    /\ pc' = "m_done"
    /\ UNCHANGED <<image, files, mounts, sbs, state, log, hist, walk, ns, inv>>

SpecMark == InitMark /\ [][MarkCall]_vars

\* /newroot/proc, what lies beneath it, and /newroot/dev/mqueue
SparedPaths == {PROC, <<"newroot", "proc", "x">>, DEV_MQUEUE}
Excess(a, b) == IF a > b THEN a - b ELSE 0

\* C17: the marking loop never marks /newroot/proc, a path beneath /newroot/proc or
\* /newroot/dev/mqueue, whatever the baseline holds for them, and leaves their baseline
\* counts as they were; every other listed path, /newroot/procfoo and
\* /newroot/dev/mqueue/x among them, is marked as often as it is listed beyond its
\* baseline count, and its remaining count is the baseline's less the listed ones.
C17_ExemptionsAndNothingElse ==
    pc = "m_done" =>
        \A p \in ListedPaths :
            IF p \in SparedPaths
            THEN /\ Occurrences(loc.paths_to_umount, p) = 0
                 /\ Count(loc.mount_points, p) = Count(state, p)
            ELSE /\ Occurrences(loc.paths_to_umount, p)
                       = Excess(Occurrences(loc.current_mounts, p), Count(state, p))
                 /\ Count(loc.mount_points, p)
                       = Excess(Count(state, p), Occurrences(loc.current_mounts, p))

\* /newroot/proc and /newroot/procfoo are listed, the baseline holds /newroot/proc only:
\* /newroot/procfoo alone is marked
C17_Witness ==
    /\ pc = "m_done"
    /\ loc.current_mounts = <<PROC, Under("procfoo")>>
    /\ Count(state, PROC) = 1 /\ Count(state, Under("procfoo")) = 0
    /\ loc.paths_to_umount = <<Under("procfoo")>>
    /\ Count(loc.mount_points, PROC) = 1

\* /newroot/dev/mqueue/x is listed twice and the baseline holds it once: it is marked once
C17_WitnessMqueueChild ==
    /\ pc = "m_done"
    /\ loc.current_mounts = << <<"newroot", "dev", "mqueue", "x">>, <<"newroot", "dev", "mqueue", "x">> >>
    /\ Count(state, <<"newroot", "dev", "mqueue", "x">>) = 1
    /\ loc.paths_to_umount = << <<"newroot", "dev", "mqueue", "x">> >>

\* the unmounts before rebinding that the running (or last) reset has logged
RebindUmounts == {k \in 1..Len(log) : log[k].op = "umount" /\ log[k].phase = "rebind"}

\* C18: for /newroot/dev/shm and /newroot/tmp alike, when the unmount before rebinding
\* fails with InvalidInput reset goes on to bind-mount the quota-backed directory on the
\* target; when it fails with another error reset returns that error, and makes neither
\* the bind mount at that target nor any later call.
C18_OnlyInvalidInputTolerated ==
    hist.resets > 0 =>
        /\ \A k \in RebindUmounts :
              IF log[k].res \in {"OK", "EINVAL"}
              THEN IF k < Len(log)
                   THEN log[k + 1] = Op("bind", log[k].path, "OK", "rebind")
                   ELSE pc = "r_bind" \/ (pc = "failed" /\ hist.failedAt = "r_bind")
              ELSE /\ k = Len(log)
                   /\ pc = "failed"
                   /\ hist.last = "Err" /\ hist.err = log[k].res
                   /\ hist.failedAt = "r_umount_old"
        /\ (pc = "failed" /\ hist.failedAt = "r_umount_old") =>
              \A k \in 1..Len(log) :
                  ~(log[k].op = "bind" /\ log[k].path = Rebinds[loc.idx].path)

\* the unmount of /newroot/tmp failed with InvalidInput and the bind mount followed
C18_Witness ==
    /\ hist.resets > 0
    /\ \E k \in RebindUmounts :
          /\ log[k].path = TMP /\ log[k].res = "EINVAL"
          /\ k < Len(log) /\ log[k + 1].op = "bind" /\ log[k + 1].path = TMP

\* the unmount of /newroot/dev/shm failed with another error and reset returned it
C18_WitnessOtherError ==
    /\ pc = "failed" /\ hist.failedAt = "r_umount_old" /\ hist.err = "EBUSY"
    /\ log # <<>>
    /\ log[Len(log)] = Op("umount", DEV_SHM, "EBUSY", "rebind")
    /\ loc.idx = 1

\* the paths reset makes a mount at
Remade == {SPACE, DEV_SHM, TMP}
NonExemptPaths == {p \in DOMAIN LiveCounts(mounts) \cup DOMAIN state \cup Remade : ~Exempt(p)}
AtLeastOne(n) == IF n = 0 THEN 1 ELSE n

Fatal(e) == e.res # "OK" /\ ~(e.phase = "rebind" /\ Tolerated(e.res))
MountedAt(p) == \E k \in 1..Len(mounts) : mounts[k].target = p

\* C21: create_rootfs and reset end at their first failing step: the call returns an
\* error, no later step is made, nothing is retried and nothing is rolled back.  When an
\* unmount of a marked path fails, the marked paths still waiting stay mounted and no
\* tmpfs is mounted on /newroot/space; the mounts a failed create_rootfs had made stay.
C21_FirstFailureEnds ==
    /\ (hist.last = "Err") <=> (pc = "failed")
    /\ \A k \in 1..Len(log) :
          Fatal(log[k]) => /\ k = Len(log)
                           /\ pc = "failed"
                           /\ hist.err = log[k].res
    /\ (pc = "failed" /\ hist.failedAt = "r_umount") =>
          /\ \A k \in 1..Len(log) : log[k].phase = "marked"
          /\ LET done == SelectSeq(log, LAMBDA e : e.res = "OK")
             IN  Len(done) + Len(loc.paths_to_umount) = Len(MarkedPaths)
          /\ \A k \in 1..Len(loc.paths_to_umount) : MountedAt(loc.paths_to_umount[k])
          /\ Live(SPACE) = Occurrences(loc.paths_to_umount, SPACE) + Count(state, SPACE)
    /\ (pc = "failed" /\ hist.resets = 0) =>
          /\ \A k \in 1..Len(log) : log[k].op \in {"bind", "rbind"} => MountedAt(log[k].path)
          /\ hist.failedAt # "c_mkdir_newroot" => NEWROOT \in DOMAIN files
          /\ state = EmptyMap

\* an unmount of a marked path failed after another had succeeded, with a marked path
\* still waiting
C21_Witness ==
    /\ pc = "failed" /\ hist.failedAt = "r_umount"
    /\ log # <<>> /\ log[Len(log)].res = "OK"
    /\ Len(loc.paths_to_umount) >= 1

\* the first unmount of a marked path failed with EBUSY, with others still waiting
C21_WitnessBusy ==
    /\ pc = "failed" /\ hist.failedAt = "r_umount"
    /\ Len(log) = 1 /\ log[1].res = "EBUSY"
    /\ Len(loc.paths_to_umount) >= 2

\* create_rootfs failed at the recursive bind of /dev, with an entry of the image mounted
C21_WitnessCreate ==
    /\ pc = "failed" /\ hist.resets = 0 /\ hist.failedAt = "c_bind_dev"
    /\ MountedAt(Under("bin"))
    /\ ~MountedAt(Under("dev"))

\* the place of entry i among the entries of the listing that name the same path
Rank(s, i) == Cardinality({j \in 1..i : s[j] = s[i]})

\* the entries of a listing beyond the baseline count of their path, the exempt aside
Beyond(s, baseline) == {i \in 1..Len(s) : ~Exempt(s[i]) /\ Rank(s, i) > Count(baseline, s[i])}

RECURSIVE Pick(_, _, _)
\* the entries of s at the places I, from place i on
Pick(s, i, I) ==
    IF i > Len(s) THEN <<>>
    ELSE (IF i \in I THEN <<s[i]>> ELSE <<>>) \o Pick(s, i + 1, I)

MarkingDone == hist.resets > 0 /\ pc = "r_umount" /\ loc.paths_to_umount = <<>>
Stripped(m) == <<m.target, m.fstype, m.src, m.sb>>

\* C22: for every path p that is not exempt, reset's marking phase issues as many
\* unmounts of p as the listing holds p beyond its baseline count (none when it does
\* not): the first occurrences, as many as the baseline count, are kept and exactly the
\* later ones are marked; when the marking phase is over the mounts those later entries
\* stood for are gone and the others are in the table as before.  (Stated of the call
\* from the end of the marking loop to the last marked unmount; the listing, the
\* baseline and the marked paths do not change in the rest of the call.)
C22_MarksExactlyTheExcess ==
    (hist.resets > 0 /\ pc = "r_umount") =>
        LET listing == loc.current_mounts
            later == Beyond(listing, state)
            marked == MarkedPaths
        IN  /\ marked = Pick(listing, 1, later)
            /\ \A p \in {listing[i] : i \in 1..Len(listing)} :
                  ~Exempt(p) =>
                      Occurrences(marked, p) = Excess(Occurrences(listing, p), Count(state, p))
            /\ MarkingDone =>
                  /\ [k \in 1..Len(log) |-> log[k].path]
                        = [k \in 1..Len(marked) |-> marked[Len(marked) + 1 - k]]
                  /\ LET before == SelectSeq(loc.table, LAMBDA m : StartsWithDir(m.target, NEWROOT))
                         now == SelectSeq(mounts, LAMBDA m : StartsWithDir(m.target, NEWROOT))
                         kept == Pick(before, 1, (1..Len(before)) \ later)
                     IN  [k \in 1..Len(now) |-> Stripped(now[k])]
                            = [k \in 1..Len(kept) |-> Stripped(kept[k])]

\* a path is listed twice with another marked path between, the baseline holds it once:
\* the second occurrence is marked and unmounted, the first mount is kept
C22_Witness ==
    /\ MarkingDone
    /\ \E i, j \in 1..Len(loc.current_mounts) :
          /\ i < j
          /\ loc.current_mounts[i] = loc.current_mounts[j]
          /\ Count(state, loc.current_mounts[i]) = 1
          /\ j \in Beyond(loc.current_mounts, state)
    /\ Len(log) >= 2

(***************************************************************************)
(* resolve_abs.  The accumulator is a sequence of "/" and names, a path is  *)
(* the sequence of its components as Path::components() yields them:        *)
(* "/" (RootDir) and "." (CurDir) only in front, ".." (ParentDir), or a     *)
(* name (Normal).                                                           *)
(***************************************************************************)
MaxLinkLevel == 255

ROOT_BOX == <<"/", "newroot">>
SEED_BOX == <<"/", "newroot", "/", "space">>
ROOT_OLD == <<"/", "oldroot">>

FirstComponents == {"/", ".", "..", "a", "l"}
LaterComponents == {"..", "a", "l"}
InputPaths ==
    {p \in UNION {[1..k -> FirstComponents] : k \in 0..MaxPathLen} :
        \A i \in 2..Len(p) : p[i] \in LaterComponents}

\* where a symlink may lie, and what it may point to
LinkSites == {SEED_BOX \o <<"/", "l">>, ROOT_BOX \o <<"/", "l">>}
LinkTargets ==
    {<<"..", "..", "..", "etc">>, <<"/", "..", "etc">>, <<"/", "l">>, <<"l">>,
     <<"..", "l">>, <<"space", "l">>}
Layouts == UNION {[S -> LinkTargets] : S \in SUBSET LinkSites}

\* a chain of n symlinks in /newroot/space: c1 -> c2 -> ... -> cn -> a
ChainName == [i \in 1..(MaxLinkLevel + 2) |-> "c" \o ToString(i)]
ChainSite(i) == SEED_BOX \o <<"/", ChainName[i]>>
ChainLens == {1, MaxLinkLevel, MaxLinkLevel + 1}

Frame(path, level) == [rest |-> path, level |-> level, fresh |-> TRUE]

\* resolve_abs(path, root, acc, 0)
WalkerAt(root, seed, path, chain, tab) ==
    [on |-> TRUE, path |-> path, chain |-> chain, tab |-> tab,
     root |-> root, seed |-> seed, acc |-> seed, stack |-> <<Frame(path, 0)>>,
     result |-> "running", errLevel |-> 0]

Walker(path, chain, tab) == WalkerAt(ROOT_BOX, SEED_BOX, path, chain, tab)

\* resolve_abs_box_root: resolve_abs(path, b"/newroot", b"/newroot/space".to_vec(), 0)
InitResolve ==
    /\ walk \in {Walker(p, 0, t) : p \in InputPaths, t \in Layouts}
               \cup {Walker(<<ChainName[1]>>, n, EmptyMap) : n \in ChainLens}
    /\ image = [bin |-> Dir]
    /\ mounts = <<>>
    /\ files = EmptyMap
    /\ sbs = EmptyMap
    /\ pc = "off"
    /\ state = EmptyMap
    /\ loc = Locals
    /\ log = <<>>
    /\ hist = History
    /\ ns = Off
    /\ inv = Off

\* resolve_abs_old_root: resolve_abs(path, b"/oldroot", b"/oldroot".to_vec(), 0)
OldLayouts == UNION {[S -> LinkTargets] : S \in SUBSET {ROOT_OLD \o <<"/", "l">>}}
InitResolveOld ==
    /\ walk \in {WalkerAt(ROOT_OLD, ROOT_OLD, p, 0, t) : p \in InputPaths, t \in OldLayouts}
    /\ image = [bin |-> Dir]
    /\ mounts = <<>>
    /\ files = EmptyMap
    /\ sbs = EmptyMap
    /\ pc = "off"
    /\ state = EmptyMap
    /\ loc = Locals
    /\ log = <<>>
    /\ hist = History
    /\ ns = Off
    /\ inv = Off

NoLink == [ok |-> FALSE, target |-> <<>>]

\* std::fs::read_link(acc)
ReadLink(w, acc) ==
    IF w.chain > 0
    THEN IF \E i \in 1..w.chain : acc = ChainSite(i)
         THEN LET i == CHOOSE j \in 1..w.chain : acc = ChainSite(j)
              IN  [ok |-> TRUE, target |-> IF i < w.chain THEN <<ChainName[i + 1]>> ELSE <<"a">>]
         ELSE NoLink
    ELSE IF acc \in DOMAIN w.tab THEN [ok |-> TRUE, target |-> w.tab[acc]]
    ELSE NoLink

\* Vec::truncate
Truncate(acc, n) == IF n < Len(acc) THEN SubSeq(acc, 1, n) ELSE acc

\* acc.iter().rposition(|&r| r == b'/'), counted from 0; -1 stands for None
RPosition(acc) ==
    IF \E i \in 1..Len(acc) : acc[i] = "/"
    THEN (CHOOSE i \in 1..Len(acc) : acc[i] = "/" /\ \A j \in (i + 1)..Len(acc) : acc[j] # "/") - 1
    ELSE -1

\* TooDeep with the bound one too low
TooDeepOffByOne(link_level) == link_level >= MaxLinkLevel

\* if link_level > 255
TooDeep(link_level) == link_level > MaxLinkLevel

\* Component::ParentDir without the test against the root
ParentDirUnguarded(acc, root) == Truncate(acc, RPosition(acc))

\* Component::ParentDir
ParentDir(acc, root) ==
    IF Len(acc) > Len(root) THEN Truncate(acc, RPosition(acc)) ELSE acc

TopFrame == walk.stack[Len(walk.stack)]
Running == walk.on /\ walk.result = "running"
Stepping == Running /\ ~TopFrame.fresh /\ TopFrame.rest # <<>>
Consumed == [walk.stack EXCEPT ![Len(walk.stack)].rest = Tail(@)]
Aside == <<image, files, mounts, sbs, pc, state, loc, log, hist, ns, inv>>

\* the entry of a call: the link level is tested, an error goes up through every `?`
ResolveEnter ==
    /\ Running
    /\ TopFrame.fresh
    /\ IF TooDeep(TopFrame.level)
         THEN walk' = [walk EXCEPT !.result = "FilesystemLoop", !.errLevel = TopFrame.level,
                                   !.stack = <<>>]
         ELSE walk' = [walk EXCEPT !.stack[Len(walk.stack)].fresh = FALSE]
    /\ UNCHANGED Aside

ResolveRootDir ==
    /\ Stepping
    /\ Head(TopFrame.rest) = "/"
    /\ walk' = [walk EXCEPT !.acc = Truncate(@, Len(walk.root)), !.stack = Consumed]
    /\ UNCHANGED Aside

ResolveCurDir ==
    /\ Stepping
    /\ Head(TopFrame.rest) = "."
    /\ walk' = [walk EXCEPT !.stack = Consumed]
    /\ UNCHANGED Aside

ResolveParentDir ==
    /\ Stepping
    /\ Head(TopFrame.rest) = ".."
    /\ IF Len(walk.acc) > 0 /\ RPosition(walk.acc) < 0
         THEN walk' = [walk EXCEPT !.result = "panic", !.stack = <<>>]
         ELSE walk' = [walk EXCEPT !.acc = ParentDir(@, walk.root), !.stack = Consumed]
    /\ UNCHANGED Aside

\* CutBack with the accumulator left as it is, the link's name still on it
LeftOn(appended, cwd_acc_len) == appended

\* acc.truncate(cwd_acc_len): the link's name is taken off again
CutBack(appended, cwd_acc_len) == Truncate(appended, cwd_acc_len)

\* Component::Normal(part) that is no symlink: the part stays appended
ResolveNormal ==
    /\ Stepping
    /\ Head(TopFrame.rest) \notin {"/", ".", ".."}
    /\ LET appended == walk.acc \o <<"/", Head(TopFrame.rest)>>
       IN  /\ ~ReadLink(walk, appended).ok
           /\ walk' = [walk EXCEPT !.acc = appended, !.stack = Consumed]
    /\ UNCHANGED Aside

\* OwnLevel with every link followed counted against the caller as well
LinksCounted(link_level) == link_level + 1

\* link_level: usize is passed by value: the level of the caller is what it was when
\* the call for the link's target returns
OwnLevel(link_level) == link_level

\* the frame of the caller while resolve_abs(&link, root, acc, link_level + 1)? runs
Called == [Consumed EXCEPT ![Len(walk.stack)].level = OwnLevel(@)]

\* Component::Normal(part) that is a symlink: the accumulator is cut back and the target
\* is resolved in its place, one link level deeper
ResolveLink ==
    /\ Stepping
    /\ Head(TopFrame.rest) \notin {"/", ".", ".."}
    /\ LET cwd_acc_len == Len(walk.acc)
           appended == walk.acc \o <<"/", Head(TopFrame.rest)>>
           link == ReadLink(walk, appended)
       IN  /\ link.ok
           /\ walk' = [walk EXCEPT !.acc = CutBack(appended, cwd_acc_len),
                                    !.stack = Append(Called, Frame(link.target, TopFrame.level + 1))]
    /\ UNCHANGED Aside

\* Ok(PathBuf::from(acc)): the caller goes on with the accumulator returned
ResolveReturn ==
    /\ Running
    /\ ~TopFrame.fresh
    /\ TopFrame.rest = <<>>
    /\ walk' = [walk EXCEPT !.stack = SubSeq(@, 1, Len(@) - 1),
                             !.result = IF Len(walk.stack) = 1 THEN "Ok" ELSE "running"]
    /\ UNCHANGED Aside

resolve_abs ==
    \/ ResolveEnter
    \/ ResolveRootDir
    \/ ResolveCurDir
    \/ ResolveParentDir
    \/ ResolveNormal
    \/ ResolveLink
    \/ ResolveReturn

SpecResolve == InitResolve /\ [][resolve_abs]_vars

\* the calls of both resolve_abs_box_root and resolve_abs_old_root
SpecResolveBoth == (InitResolve \/ InitResolveOld) /\ [][resolve_abs]_vars

\* a path of n components, each the symlink s -> "." of /newroot/space: every one of
\* them is followed from the top-level call
FlatLens == {2, MaxLinkLevel + 2}
FlatPath(n) == [i \in 1..n |-> "s"]
FlatLayout == (SEED_BOX \o <<"/", "s">>) :> <<".">>

InitFlat ==
    /\ walk \in {Walker(FlatPath(n), 0, FlatLayout) : n \in FlatLens}
    /\ image = [bin |-> Dir]
    /\ mounts = <<>>
    /\ files = EmptyMap
    /\ sbs = EmptyMap
    /\ pc = "off"
    /\ state = EmptyMap
    /\ loc = Locals
    /\ log = <<>>
    /\ hist = History
    /\ ns = Off
    /\ inv = Off

\* resolve_abs is a plain sequential function: a call that has not returned takes its
\* next step
SpecTerminates == (InitResolve \/ InitFlat) /\ [][resolve_abs]_vars /\ WF_vars(resolve_abs)

(***************************************************************************)
(* create_rootfs and reset on names that are not UTF-8: an image with such  *)
(* an entry, a root that is not UTF-8, and a /dev/pts of the host that      *)
(* holds other names than those devpts gives (a directory of another        *)
(* filesystem bound or mounted there).                                      *)
(***************************************************************************)
\* "1\xFF" is not UTF-8, "\xC3\xA9" is
StrayPtsNames == {<<"1", "xFF">>, <<"xC3", "xA9">>}
Roots == {ImageRoot, ImageRootLatin1}
ReservedOnly == [tmp |-> Dir, sys |-> Dir]

InitNames ==
    /\ image \in Images \cup {ReservedOnly}
    /\ mounts = HostTable({<<"pts">>, <<"shm">>, <<"mqueue">>})
    /\ \E stray \in SUBSET StrayPtsNames :
          sbs = DevptsSb :> [Devpts({0}) EXCEPT
                    !.entries = [name \in PtsNames({0}) \cup stray |-> [kind |-> "chr"]]]
    /\ files = EmptyMap
    /\ pc = "c_mkdir_newroot"
    /\ state = EmptyMap
    /\ loc \in {[Locals EXCEPT !.root = r] : r \in Roots}
    /\ log = <<>>
    /\ hist = History
    /\ walk = Off
    /\ ns = Off
    /\ inv = Off

SpecNames == InitNames /\ [][create_rootfs \/ reset]_vars

(***************************************************************************)
(* Properties of resolve_abs_box_root.                                      *)
(***************************************************************************)
\* acc is "/newroot", or begins with "/newroot/"
InsideBoxRoot(acc) ==
    /\ Len(acc) >= 2
    /\ acc[1] = "/" /\ acc[2] = "newroot"
    /\ Len(acc) > 2 => acc[3] = "/"

\* C3: whatever the path and the symlinks, the accumulator is "/newroot" or begins with
\* "/newroot/" at every step of the resolution, and the call ends with such a path or
\* with the FilesystemLoop error.
C3_NeverLeavesBoxRoot ==
    walk.on =>
        /\ InsideBoxRoot(walk.acc)
        /\ walk.result \in {"running", "Ok", "FilesystemLoop"}

C3_Witness ==
    /\ walk.on
    /\ walk.result = "Ok"
    /\ walk.path = <<"l", "..">>
    /\ SEED_BOX \o <<"/", "l">> \in DOMAIN walk.tab
    /\ walk.tab[SEED_BOX \o <<"/", "l">>] = <<"..", "..", "..", "etc">>
    /\ walk.acc = <<"/", "newroot">>

\* the path starts at a symlink that leads back to itself
CyclicInput ==
    /\ walk.chain = 0
    /\ Len(walk.path) > 0 /\ walk.path[1] = "l"
    /\ SEED_BOX \o <<"/", "l">> \in DOMAIN walk.tab
    /\ \/ walk.tab[SEED_BOX \o <<"/", "l">>] = <<"l">>
       \/ /\ walk.tab[SEED_BOX \o <<"/", "l">>] = <<"..", "l">>
          /\ ROOT_BOX \o <<"/", "l">> \in DOMAIN walk.tab
          /\ walk.tab[ROOT_BOX \o <<"/", "l">>] = <<"space", "l">>

\* C4: the top-level call has link level 0 and each followed link adds 1; a chain of up
\* to 255 nested symlinks resolves to Ok, a chain of 256 and a cyclic chain end with the
\* FilesystemLoop error, which is raised exactly at link level 256 and is the result of
\* the top-level call.
C4_LinkLevelLimit ==
    walk.on =>
        /\ \A i \in 1..Len(walk.stack) : walk.stack[i].level = i - 1
        /\ \A i \in 1..Len(walk.stack) : walk.stack[i].level > 255 => walk.stack[i].fresh
        /\ walk.result = "FilesystemLoop" <=> walk.errLevel = 256
        /\ (walk.chain > 0 /\ walk.result # "running") =>
              walk.result = (IF walk.chain <= 255 THEN "Ok" ELSE "FilesystemLoop")
        /\ (CyclicInput /\ walk.result # "running") => walk.result = "FilesystemLoop"

C4_Witness ==
    /\ walk.on
    /\ walk.chain = 255
    /\ walk.result = "Ok"
    /\ walk.acc = SEED_BOX \o <<"/", "a">>

(***************************************************************************)
(* Path resolution as the operating system does it (path_resolution(7))     *)
(* with the declared root as the root of the filesystem.  A directory is    *)
(* the list of the names that lead to it from that root.  Every name that   *)
(* is no symlink is taken to be a directory that exists, and the links      *)
(* followed are not counted against a limit of the kernel's own.            *)
(***************************************************************************)
Names(tokens) == [i \in 1..(Len(tokens) \div 2) |-> tokens[2 * i]]

RECURSIVE Slashed(_)
Slashed(names) == IF names = <<>> THEN <<>> ELSE <<"/", Head(names)>> \o Slashed(Tail(names))

\* more links than a resolution of an input of the model follows when it ends
Fuel == 8 * (MaxPathLen + 1)

RECURSIVE OsWalk(_, _, _, _)
OsWalk(w, dir, todo, fuel) ==
    IF todo = <<>> THEN [ok |-> TRUE, dir |-> dir]
    ELSE LET c == Head(todo)
             link == ReadLink(w, Slashed(Names(w.root) \o dir \o <<c>>))
         IN  CASE c = "/" -> OsWalk(w, <<>>, Tail(todo), fuel)
               [] c = "." -> OsWalk(w, dir, Tail(todo), fuel)
               [] c = ".." -> OsWalk(w, IF dir = <<>> THEN <<>> ELSE SubSeq(dir, 1, Len(dir) - 1),
                                     Tail(todo), fuel)
               [] OTHER ->
                    IF ~link.ok THEN OsWalk(w, Append(dir, c), Tail(todo), fuel)
                    ELSE IF fuel = 0 THEN [ok |-> FALSE, dir |-> <<>>]
                    ELSE OsWalk(w, dir, link.target \o Tail(todo), fuel - 1)

\* the working directory of the call, from the declared root
SeedDir == SubSeq(Names(walk.seed), Len(Names(walk.root)) + 1, Len(Names(walk.seed)))

C13_WitnessOldRoot ==
    /\ walk.on
    /\ walk.result = "Ok"
    /\ walk.root = ROOT_OLD
    /\ walk.path = <<"..", "l">>
    /\ walk.tab = (ROOT_OLD \o <<"/", "l">>) :> <<"/", "..", "etc">>
    /\ walk.acc = <<"/", "oldroot", "/", "etc">>

\* the steps of reset that come after the tmpfs was mounted on /newroot/space
AfterSpace == {"r_chown_space", "r_mkdir", "r_chown", "r_chmod", "r_umount_old", "r_bind"}

\* the calls of the rebinding loop that the running reset has logged
RebindOps(op) == {i \in 1..Len(log) : log[i].phase = "rebind" /\ log[i].op = op}

\* the directory of the k-th rebind in the tmpfs of this reset, as the loop leaves it
RebindDirReady(k) ==
    LET name == DirName(Rebinds[k].orig_path)
    IN  /\ hist.resets \in DOMAIN sbs
        /\ name \in DOMAIN sbs[hist.resets].entries
        /\ sbs[hist.resets].entries[name] =
              [owner |-> [uid |-> "INTERNAL_ROOT_UID", gid |-> "INTERNAL_ROOT_GID"],
               mode |-> "1777"]

\* C23: after every successful reset the top mounts at /newroot/dev/shm and
\* /newroot/tmp are bind mounts of .shm and .tmp of the tmpfs this same call mounted on
\* /newroot/space, never of a tmpfs of an earlier reset, and both directories belong to
\* the internal administrative identity with mode 1777; within a reset the tmpfs is
\* mounted before the directories are made, and each directory is made (and given its
\* owner and mode) before the stale mount is removed and the new bind mount is made.
C23_RebindsOfThisResetsTmpfs ==
    /\ JustReset =>
          \A k \in 1..Len(Rebinds) :
              LET top == mounts[Visible(mounts, Rebinds[k].path)]
              IN  /\ top.target = Rebinds[k].path
                  /\ top.fstype = "bind"
                  /\ top.src = <<"newroot", "space">> \o <<DirName(Rebinds[k].orig_path)>>
                  /\ top.sb = hist.resets
                  /\ SpaceMount.sb = hist.resets
                  /\ RebindDirReady(k)
    /\ pc \in AfterSpace => SpaceMount.fstype = "tmpfs" /\ SpaceMount.sb = hist.resets
    /\ pc \in AfterSpace \ {"r_chown_space"} =>
          /\ \A k \in 1..(loc.idx - 1) : RebindDirReady(k)
          /\ Cardinality(RebindOps("bind")) = loc.idx - 1
          /\ Cardinality(RebindOps("umount")) = IF pc = "r_bind" THEN loc.idx ELSE loc.idx - 1
    /\ pc \in {"r_mkdir", "r_chown", "r_chmod"} =>
          \A i \in RebindOps("umount") \cup RebindOps("bind") :
              log[i].path # Rebinds[loc.idx].path
    /\ pc \in {"r_umount_old", "r_bind"} => RebindDirReady(loc.idx)

\* the second reset returned Ok: the binds are of its tmpfs, the first one is gone
C23_Witness ==
    /\ JustReset
    /\ hist.resets = 2
    /\ 1 \notin DOMAIN sbs
    /\ mounts[Visible(mounts, TMP)].sb = 2
    /\ mounts[Visible(mounts, DEV_SHM)].sb = 2
    /\ RebindDirReady(1) /\ RebindDirReady(2)

\* the second reset is about to remove the bind of .shm of the first reset's tmpfs,
\* which outlived the marked unmounts, with .shm of its own tmpfs made
C23_WitnessStale ==
    /\ pc = "r_umount_old"
    /\ loc.idx = 1
    /\ hist.resets = 2
    /\ mounts[Visible(mounts, DEV_SHM)].sb = 1
    /\ ".shm" \in DOMAIN sbs[1].entries
    /\ RebindDirReady(1)

\* the stale mount at /newroot/dev/shm is being removed with .shm already made
C23_WitnessOrder ==
    /\ pc = "r_bind"
    /\ loc.idx = 1
    /\ log[Len(log)].op = "umount" /\ log[Len(log)].res = "OK"
    /\ RebindDirReady(1)

(***************************************************************************)
(* configure_rootfs and enter_rootfs.  Every sandbox instance is a process  *)
(* of its own that starts in a mount namespace holding /newroot and the     *)
(* previous root at /oldroot, which is still a peer of the host's root: a   *)
(* mount or unmount beneath a shared mount is copied to the mount's peers.  *)
(* Namespace 0 is the host's.                                               *)
(***************************************************************************)
Instances == 1..NInstances
OLDROOT == <<"oldroot">>
InitialCwds == {<<>>, OLDROOT, <<"newroot", "space">>}

\* a namespace: its mounts in the order of attachment, the mounts made private, and
\* whether what happens in it is propagated to the peers of its shared mounts
HostNs ==
    [mounts |-> << <<>>, <<"dev">>, <<"dev", "shm">> >>, private |-> {}, outward |-> TRUE]
InstanceNs ==
    [mounts |-> <<OLDROOT, <<"oldroot", "dev">>, <<"oldroot", "dev", "shm">>,
                  Under("dev"), DEV_SHM>>,
     private |-> {}, outward |-> TRUE]

Process(cwd, n) ==
    [pc |-> "conf_procfs", mntns |-> n, cwd |-> cwd, root |-> <<>>, log |-> <<>>,
     todo |-> <<>>, resets |-> 0]

InitNs(cwds) ==
    /\ \E c \in [Instances -> cwds] :
          ns = [on |-> TRUE,
                procs |-> [i \in Instances |-> Process(c[i], i)],
                calls |-> 0,
                tables |-> [n \in 0..NInstances |-> IF n = 0 THEN HostNs ELSE InstanceNs]]
    /\ image = [bin |-> Dir]
    /\ mounts = <<>>
    /\ files = EmptyMap
    /\ sbs = EmptyMap
    /\ pc = "off"
    /\ state = EmptyMap
    /\ loc = Locals
    /\ log = <<>>
    /\ hist = History
    /\ walk = Off
    /\ inv = Off

InitEnter == InitNs(InitialCwds)

NsAside == <<image, files, mounts, sbs, pc, state, loc, log, hist, walk, inv>>

At(i, p) == ns.on /\ ns.procs[i].pc = p
Call(op, res) == [op |-> op, res |-> res]

\* process i goes on to `to`, having made the call `op`
Proceed(i, to, op) ==
    [ns EXCEPT !.procs[i].pc = to, !.procs[i].log = Append(@, Call(op, "OK"))]

\* unshare_mountns as a bare copy of the table: the copies stay peers of the originals
PlainUnshare(table) == table

\* mountns::unshare_mountns(): the namespace the process gets is private, nothing that
\* happens in it is propagated outward
unshare_mountns(table) == [table EXCEPT !.outward = FALSE]

FreshNs(i) == ns.procs[i].mntns + NInstances
Unshared(i, to, op) ==
    [ns EXCEPT !.procs[i].pc = to,
               !.procs[i].log = Append(@, Call(op, "OK")),
               !.procs[i].mntns = FreshNs(i),
               !.tables = (FreshNs(i) :> unshare_mountns(ns.tables[ns.procs[i].mntns])) @@ @]

(* Propagation.  /oldroot is the host's root as the instance sees it, and the      *)
(* recursive bind of /dev made /newroot/dev a peer of the host's /dev: a path of   *)
(* an instance beneath either shows the host's path without its first component.   *)
IsView(n, m) ==
    \/ n = 0
    \/ m = OLDROOT \/ StartsWithDir(m, OLDROOT)
    \/ m = Under("dev") \/ StartsWithDir(m, Under("dev"))
HostPath(n, t) == IF n = 0 THEN t ELSE Tail(t)

\* the mount of a table that the mount point t lies in
Above(table, t) == {table.mounts[k] : k \in {j \in DOMAIN table.mounts : StartsWithDir(t, table.mounts[j])}}
ParentMount(table, t) ==
    CHOOSE m \in Above(table, t) : \A o \in Above(table, t) : Len(o) <= Len(m)

Ev(kind, at) == [kind |-> kind, at |-> at]
LastAt(s, t) ==
    LET S == {k \in DOMAIN s : s[k] = t}
    IN  IF S = {} THEN 0 ELSE CHOOSE k \in S : \A j \in S : j <= k

\* mount(2) attaches at ev.at; umount(2) takes the topmost mount at ev.at away, and
\* fails with EINVAL where nothing is mounted
Local(table, ev) ==
    IF ev.kind = "mount" THEN [table EXCEPT !.mounts = Append(@, ev.at)]
    ELSE IF LastAt(table.mounts, ev.at) = 0 THEN table
    ELSE [table EXCEPT !.mounts = RemoveAt(@, LastAt(table.mounts, ev.at))]

\* a mount or unmount at ev.at in namespace n, and its copies in the peers of the
\* mount that ev.at lies in
Propagate(tables, n, ev) ==
    LET from == tables[n]
        happens == ev.kind = "mount" \/ LastAt(from.mounts, ev.at) # 0
        sends == /\ happens
                 /\ from.outward
                 /\ Above(from, ev.at) # {}
                 /\ ParentMount(from, ev.at) \notin from.private
                 /\ IsView(n, ParentMount(from, ev.at))
        h == HostPath(n, ev.at)
        Got(k, v) ==
            /\ sends
            /\ ~(k = n /\ v = ev.at)
            /\ Above(tables[k], v) # {}
            /\ ParentMount(tables[k], v) \notin tables[k].private
            /\ IsView(k, ParentMount(tables[k], v))
            /\ HostPath(k, ParentMount(tables[k], v)) = HostPath(n, ParentMount(from, ev.at))
        Copy(k, table, v) == IF Got(k, v) THEN Local(table, [ev EXCEPT !.at = v]) ELSE table
    IN  [k \in DOMAIN tables |->
            LET own == IF k = n THEN Local(from, ev) ELSE tables[k]
            IN  IF k = 0 THEN Copy(k, own, h)
                ELSE Copy(k, Copy(k, own, OLDROOT \o h), <<"newroot">> \o h)]

RECURSIVE UmountAll(_, _, _)
UmountAll(tables, n, todo) ==
    IF todo = <<>> THEN tables
    ELSE UmountAll(Propagate(tables, n, Ev("umount", todo[Len(todo)])), n,
                   SubSeq(todo, 1, Len(todo) - 1))

\* umount2(p, MNT_DETACH) in namespace n: what is mounted beneath p goes, the deepest
\* first, each unmount propagated as its parent mount has it; then p itself goes
Detached(tables, n, p) ==
    LET beneath == SelectSeq(tables[n].mounts, LAMBDA t : StartsWithDir(t, p))
        after == UmountAll(tables, n, beneath)
    IN  [after EXCEPT ![n] = Local(@, Ev("umount", p))]

\* something is mounted at p in the namespace of process i
Mounted(i, p) == LastAt(ns.tables[ns.procs[i].mntns].mounts, p) # 0

\* AfterProcfs with /oldroot unmounted at once
StraightToUmount == "conf_umount"

\* the call that follows procs::mount_procfs: mountns::unshare_mountns()
AfterProcfs == "conf_unshare"

\* procs::mount_procfs("/newroot/proc")
ConfMountProcfs ==
    \E i \in Instances :
        /\ At(i, "conf_procfs")
        /\ ns' = [Proceed(i, AfterProcfs, "mount_procfs") EXCEPT
                     !.tables = Propagate(ns.tables, ns.procs[i].mntns, Ev("mount", PROC))]
        /\ UNCHANGED NsAside

\* mountns::unshare_mountns()
ConfUnshare ==
    \E i \in Instances :
        /\ At(i, "conf_unshare")
        /\ ns' = Unshared(i, "conf_private", "unshare_mountns")
        /\ UNCHANGED NsAside

\* system::change_propagation("/oldroot", MS_PRIVATE)
ConfPrivate ==
    \E i \in Instances :
        /\ At(i, "conf_private")
        /\ Mounted(i, OLDROOT)
        /\ ns' = [Proceed(i, "conf_umount", "change_propagation") EXCEPT
                     !.tables[ns.procs[i].mntns].private = @ \cup {OLDROOT}]
        /\ UNCHANGED NsAside

\* system::umount_opt("/oldroot", MNT_DETACH)
ConfUmountOldroot ==
    \E i \in Instances :
        /\ At(i, "conf_umount")
        /\ Mounted(i, OLDROOT)
        /\ ns' = [Proceed(i, "enter_unshare", "umount_oldroot") EXCEPT
                     !.tables = Detached(ns.tables, ns.procs[i].mntns, OLDROOT)]
        /\ UNCHANGED NsAside

\* a call of configure_rootfs fails: the ? returns at once
ConfFail ==
    \E i \in Instances :
        /\ ns.on
        /\ ns.procs[i].pc \in {"conf_procfs", "conf_unshare", "conf_private", "conf_umount"}
        /\ ns' = [ns EXCEPT !.procs[i].pc = "failed",
                             !.procs[i].log = Append(@, Call(ns.procs[i].pc, "ERR"))]
        /\ UNCHANGED NsAside

(* reset as the mount namespaces see it: the calls of umount and mount it makes,   *)
(* one step each, in the namespace of the instance that calls it.                  *)
\* the baseline create_rootfs recorded for the instance
NsBaseline == CountPaths(SelectSeq(InstanceNs.mounts, LAMBDA t : StartsWithDir(t, NEWROOT)))

\* lines 157-216: the marked paths in reverse, the tmpfs, then umount and bind of each
\* of /newroot/dev/shm and /newroot/tmp
ResetCalls(table) ==
    LET current == SelectSeq(table.mounts, LAMBDA t : StartsWithDir(t, NEWROOT))
        marked == Mark(current, 1, NsBaseline, <<>>).paths_to_umount
    IN  [k \in 1..Len(marked) |-> Ev("umount", marked[Len(marked) + 1 - k])]
        \o <<Ev("mount", SPACE)>>
        \o <<Ev("umount", Rebinds[1].path), Ev("mount", Rebinds[1].path),
             Ev("umount", Rebinds[2].path), Ev("mount", Rebinds[2].path)>>

NsResetStart ==
    \E i \in Instances :
        /\ At(i, "enter_unshare")
        /\ ns.procs[i].resets < MaxResets
        /\ ns' = [ns EXCEPT !.procs[i].pc = "resetting",
                             !.procs[i].resets = @ + 1,
                             !.procs[i].todo = ResetCalls(ns.tables[ns.procs[i].mntns])]
        /\ UNCHANGED NsAside

NsResetCall ==
    \E i \in Instances :
        /\ At(i, "resetting")
        /\ ns' = [ns EXCEPT !.procs[i].todo = Tail(@),
                             !.procs[i].pc = IF Len(ns.procs[i].todo) = 1
                                             THEN "enter_unshare" ELSE @,
                             !.tables = Propagate(ns.tables, ns.procs[i].mntns,
                                                  Head(ns.procs[i].todo))]
        /\ UNCHANGED NsAside

\* a call of reset fails and reset returns the error
NsResetFail ==
    \E i \in Instances :
        /\ At(i, "resetting")
        /\ ns' = [ns EXCEPT !.procs[i].pc = "failed", !.procs[i].todo = <<>>]
        /\ UNCHANGED NsAside

reset_in_namespace == NsResetStart \/ NsResetCall \/ NsResetFail

\* mountns::unshare_mountns()
EnterUnshare ==
    \E i \in Instances :
        /\ At(i, "enter_unshare")
        /\ ns' = Unshared(i, "enter_chdir", "enter_unshare")
        /\ UNCHANGED NsAside

\* std::env::set_current_dir("/newroot"): the path is looked up from the process's root
EnterChdir ==
    \E i \in Instances :
        /\ At(i, "enter_chdir")
        /\ ns' = [Proceed(i, "enter_chroot", "chdir") EXCEPT
                     !.procs[i].cwd = ns.procs[i].root \o NEWROOT]
        /\ UNCHANGED NsAside

\* OnChdirError with the error dropped: enter_rootfs goes on to chroot
OnChdirErrorIgnored == "enter_chroot"

\* .context("Failed to chdir to /newroot")?
OnChdirError == "failed"

EnterChdirFail ==
    \E i \in Instances :
        /\ At(i, "enter_chdir")
        /\ ns' = [ns EXCEPT !.procs[i].pc = OnChdirError,
                             !.procs[i].log = Append(@, Call("chdir", "ERR"))]
        /\ UNCHANGED NsAside

\* nix::unistd::chroot("."): the working directory becomes the root
EnterChroot ==
    \E i \in Instances :
        /\ At(i, "enter_chroot")
        /\ ns' = [Proceed(i, "entered", "chroot") EXCEPT !.procs[i].root = ns.procs[i].cwd]
        /\ UNCHANGED NsAside

EnterFail ==
    \E i \in Instances :
        /\ ns.on
        /\ ns.procs[i].pc \in {"enter_unshare", "enter_chroot"}
        /\ ns' = [ns EXCEPT !.procs[i].pc = "failed",
                             !.procs[i].log = Append(@, Call(ns.procs[i].pc, "ERR"))]
        /\ UNCHANGED NsAside

configure_rootfs == ConfMountProcfs \/ ConfUnshare \/ ConfPrivate \/ ConfUmountOldroot \/ ConfFail

enter_rootfs == EnterUnshare \/ EnterChdir \/ EnterChdirFail \/ EnterChroot \/ EnterFail

SpecEnter == InitEnter /\ [][configure_rootfs \/ enter_rootfs]_vars

InitInstances == InitNs({<<>>})

(* The functions take no argument and keep no record of the phase: whoever drives *)
(* an instance can call either of them whenever the process is not inside one.     *)
\* a call that does not follow unconfigured -> configured -> entered
CallOutOfTurn ==
    \E i \in Instances, phase \in {"conf_procfs", "enter_unshare"} :
        /\ ns.on
        /\ ns.calls < MaxCalls
        /\ \/ ns.procs[i].pc = "entered"
           \/ ns.procs[i].pc \in {"conf_procfs", "enter_unshare"} /\ phase # ns.procs[i].pc
        /\ ns' = [ns EXCEPT !.procs[i].pc = phase, !.calls = @ + 1]
        /\ UNCHANGED NsAside

SpecPhases == InitInstances /\ [][configure_rootfs \/ enter_rootfs \/ CallOutOfTurn]_vars

\* the instances configure their namespaces and call reset, interleaved
SpecInstances == InitInstances /\ [][configure_rootfs \/ reset_in_namespace]_vars

(***************************************************************************)
(* Properties of enter_rootfs.                                              *)
(***************************************************************************)
\* the places in process i's log of the calls `op` that succeeded
Done(i, op) ==
    {k \in 1..Len(ns.procs[i].log) : ns.procs[i].log[k] = [op |-> op, res |-> "OK"]}

\* C9: enter_rootfs unshares the mount namespace, then changes directory to /newroot,
\* then changes root; chroot is not called unless the chdir before it succeeded, and a
\* process whose root is /newroot has its working directory inside /newroot.
C9_ChdirBeforeChroot ==
    ns.on =>
        \A i \in Instances :
            /\ \A k \in 1..Len(ns.procs[i].log) :
                  ns.procs[i].log[k].op = "chroot" =>
                      \E u, c \in 1..(k - 1) :
                          /\ u < c
                          /\ u \in Done(i, "enter_unshare")
                          /\ c \in Done(i, "chdir")
            /\ ns.procs[i].root = <<"newroot">> =>
                  \/ ns.procs[i].cwd = <<"newroot">>
                  \/ StartsWithDir(ns.procs[i].cwd, <<"newroot">>)

C9_Witness ==
    /\ ns.on
    /\ \E i \in Instances :
          /\ ns.procs[i].pc = "entered"
          /\ ns.procs[i].root = <<"newroot">>
          /\ ns.procs[i].cwd = <<"newroot">>
          /\ Done(i, "chroot") # {}

(***************************************************************************)
(* Properties of the instances' mount namespaces.                           *)
(***************************************************************************)
Configured(i) == Done(i, "umount_oldroot") # {}

\* C14: with two instances running interleaved, each having run configure_rootfs, no
\* mount or unmount that one instance's reset performs changes the mount table of the
\* namespace the other instance is in.
C14_ResetStaysInItsNamespace ==
    [][\A i, j \in Instances :
          (/\ ns.on
           /\ i # j
           /\ ns.procs[i].pc = "resetting"
           /\ ns'.procs[i] # ns.procs[i]
           /\ Configured(j))
          => ns'.tables[ns.procs[j].mntns] = ns.tables[ns.procs[j].mntns]]_vars

\* two instances are in the middle of reset, and their tables differ
C14_Witness ==
    /\ ns.on
    /\ \E i, j \in Instances :
          /\ i # j
          /\ ns.procs[i].pc = "resetting" /\ ns.procs[j].pc = "resetting"
          /\ ns.procs[i].resets = 2
          /\ LastAt(ns.tables[ns.procs[i].mntns].mounts, TMP) # 0
          /\ LastAt(ns.tables[ns.procs[j].mntns].mounts, SPACE) = 0

\* the places in process i's log of the calls `op`, whatever their result
Tried(i, op) == {k \in 1..Len(ns.procs[i].log) : ns.procs[i].log[k].op = op}

\* C15: the phases form a state machine unconfigured -> configured -> entered, and a
\* call of enter_rootfs before configure_rootfs, or a second call of either phase,
\* is rejected without executing its operations: no process makes a call of
\* enter_rootfs before configure_rootfs has completed, nor the first call of a phase twice.
C15_PhasesEnforced ==
    ns.on =>
        \A i \in Instances :
            /\ \A k \in Tried(i, "enter_unshare") :
                  \E c \in Done(i, "umount_oldroot") : c < k
            /\ Cardinality(Tried(i, "mount_procfs")) <= 1
            /\ Cardinality(Tried(i, "enter_unshare")) <= 1

\* a process that never ran configure_rootfs has changed its root, with /oldroot
\* still mounted in its namespace
C15_EnteredUnconfigured ==
    /\ ns.on
    /\ \E i \in Instances :
          /\ ns.procs[i].pc = "entered"
          /\ Tried(i, "mount_procfs") = {}
          /\ Done(i, "chroot") # {}
          /\ Mounted(i, OLDROOT)

\* a process has run the operations of configure_rootfs a second time
C15_ConfiguredTwice ==
    /\ ns.on
    /\ \E i \in Instances : Cardinality(Done(i, "unshare_mountns")) = 2

ConfOrder == <<"mount_procfs", "unshare_mountns", "change_propagation", "umount_oldroot">>
ConfSteps == {"conf_procfs", "conf_unshare", "conf_private", "conf_umount"}

\* the calls of configure_rootfs that process i has made with success, in order
ConfDone(i) ==
    LET ok == SelectSeq(ns.procs[i].log,
                        LAMBDA c : c.res = "OK" /\ \E k \in 1..Len(ConfOrder) : ConfOrder[k] = c.op)
    IN  [k \in 1..Len(ok) |-> ok[k].op]

\* C20: configure_rootfs mounts procfs at /newroot/proc, unshares the mount namespace,
\* makes /oldroot private and detach-unmounts /oldroot, in this order; /oldroot is not
\* unmounted before the namespace has been unshared and /oldroot made private in it; and
\* after a step has failed no later step is made.
C20_ConfigureInOrder ==
    ns.on =>
        \A i \in Instances :
            /\ Len(ConfDone(i)) <= Len(ConfOrder)
            /\ ConfDone(i) = SubSeq(ConfOrder, 1, Len(ConfDone(i)))
            /\ ~Mounted(i, OLDROOT) =>
                  /\ ns.procs[i].mntns # i
                  /\ OLDROOT \in ns.tables[ns.procs[i].mntns].private
                  /\ \E u, p, d \in 1..Len(ns.procs[i].log) :
                        /\ u < p /\ p < d
                        /\ u \in Done(i, "unshare_mountns")
                        /\ p \in Done(i, "change_propagation")
                        /\ d \in Done(i, "umount_oldroot")
            /\ \A k \in 1..Len(ns.procs[i].log) :
                  (ns.procs[i].log[k].op \in ConfSteps /\ ns.procs[i].log[k].res = "ERR") =>
                      /\ k = Len(ns.procs[i].log)
                      /\ ns.procs[i].pc = "failed"
                      /\ Mounted(i, OLDROOT)

\* a process has made the four calls and /oldroot is gone from its namespace, while
\* another is still in the namespace it started in
C20_Witness ==
    /\ ns.on
    /\ \E i, j \in Instances :
          /\ ConfDone(i) = ConfOrder
          /\ ~Mounted(i, OLDROOT)
          /\ ns.procs[j].mntns = j /\ Mounted(j, OLDROOT)

\* making /oldroot private failed: procfs is mounted, the namespace unshared, and
\* /oldroot was left mounted
C20_WitnessFailure ==
    /\ ns.on
    /\ \E i \in Instances :
          /\ ns.procs[i].pc = "failed"
          /\ ConfDone(i) = <<"mount_procfs", "unshare_mountns">>
          /\ ns.procs[i].log[Len(ns.procs[i].log)] = Call("conf_private", "ERR")
          /\ Mounted(i, OLDROOT)

(***************************************************************************)
(* list_child_mounts on the text of /proc/self/mounts.  A line is a         *)
(* sequence of characters, or cannot be read.                               *)
(***************************************************************************)
Readable(text) == [ok |-> TRUE, text |-> text]
Unreadable == [ok |-> FALSE, text |-> <<>>]

LineTexts ==
    { <<>>,
      <<"d">>,
      <<"d", " ", "/", "n", "/", "x">>,
      <<"d", " ", "/", "n", "/", "x", " ", "t", " ", "r">>,
      <<"d", " ", "/", "n">>,
      <<"d", " ", "/", "m", "/", "x">>,
      <<"d", " ", " ", "/", "n", "/", "x">>,
      <<" ", "/", "n", "/", "x">>,
      <<"/", "n", "/", "x">>,
      <<"/", "n", "/", " ", "/", "n", "/">> }

Lines == {Readable(t) : t \in LineTexts} \cup {Unreadable}
Prefixes == { <<"/", "n", "/">>, <<"/">> }
Tables == UNION {[1..n -> Lines] : n \in 0..MaxLines}

InitList ==
    /\ \E t \in Tables, p \in Prefixes :
          inv = [on |-> TRUE, table |-> t, prefix |-> p, at |-> "open", i |-> 1,
                 vec |-> <<>>, ret |-> [done |-> FALSE]]
    /\ image = [bin |-> Dir]
    /\ mounts = <<>>
    /\ files = EmptyMap
    /\ sbs = EmptyMap
    /\ pc = "off"
    /\ state = EmptyMap
    /\ loc = Locals
    /\ log = <<>>
    /\ hist = History
    /\ walk = Off
    /\ ns = Off

ListAside == <<image, files, mounts, sbs, pc, state, loc, log, hist, walk, ns>>

\* str::split(' '): the pieces between the spaces, empty pieces included
RECURSIVE Split(_, _, _)
Split(text, piece, pieces) ==
    IF text = <<>> THEN Append(pieces, piece)
    ELSE IF Head(text) = " " THEN Split(Tail(text), <<>>, Append(pieces, piece))
    ELSE Split(Tail(text), Append(piece, Head(text)), pieces)

\* str::starts_with
starts_with(text, prefix) ==
    Len(text) >= Len(prefix) /\ SubSeq(text, 1, Len(prefix)) = prefix

\* target_path taken from the first field
FirstField(it) == it[1]

\* it.next() twice: the second piece
target_path(it) == it[2]

Ok(val) == [done |-> TRUE, ok |-> TRUE, val |-> val]
\* Err carries no list
Err(msg) == [done |-> TRUE, ok |-> FALSE, msg |-> msg]

Listing == inv.on /\ ~inv.ret.done
Line == inv.table[inv.i]

\* std::fs::File::open("/proc/self/mounts")
ListOpen ==
    /\ Listing /\ inv.at = "open"
    /\ inv' = [inv EXCEPT !.at = "lines"]
    /\ UNCHANGED ListAside

ListOpenFail ==
    /\ Listing /\ inv.at = "open"
    /\ inv' = [inv EXCEPT !.ret = Err("Failed to open /proc/self/mounts for reading")]
    /\ UNCHANGED ListAside

\* let line = line.context("Failed to read /proc/self/mounts")?
ListReadFail ==
    /\ Listing /\ inv.at = "lines" /\ inv.i <= Len(inv.table)
    /\ ~Line.ok
    /\ inv' = [inv EXCEPT !.ret = Err("Failed to read /proc/self/mounts")]
    /\ UNCHANGED ListAside

\* it.next() gives no second piece
ListInvalidFormat ==
    /\ Listing /\ inv.at = "lines" /\ inv.i <= Len(inv.table)
    /\ Line.ok
    /\ Len(Split(Line.text, <<>>, <<>>)) < 2
    /\ inv' = [inv EXCEPT !.ret = Err("Invalid format of /proc/self/mounts")]
    /\ UNCHANGED ListAside

\* if target_path.starts_with(prefix) { vec.push(target_path.to_string()) }
ListLine ==
    /\ Listing /\ inv.at = "lines" /\ inv.i <= Len(inv.table)
    /\ Line.ok
    /\ LET it == Split(Line.text, <<>>, <<>>)
       IN  /\ Len(it) >= 2
           /\ inv' = [inv EXCEPT
                        !.i = @ + 1,
                        !.vec = IF starts_with(target_path(it), inv.prefix)
                                THEN Append(@, target_path(it)) ELSE @]
    /\ UNCHANGED ListAside

\* Ok(vec)
ListReturn ==
    /\ Listing /\ inv.at = "lines" /\ inv.i > Len(inv.table)
    /\ inv' = [inv EXCEPT !.ret = Ok(inv.vec)]
    /\ UNCHANGED ListAside

list_child_mounts_text ==
    ListOpen \/ ListOpenFail \/ ListReadFail \/ ListInvalidFormat \/ ListLine \/ ListReturn

SpecList == InitList /\ [][list_child_mounts_text]_vars

(***************************************************************************)
(* Properties of list_child_mounts, stated on the positions of the spaces   *)
(* in a line.                                                               *)
(***************************************************************************)
Spaces(text) == {k \in 1..Len(text) : text[k] = " "}
WellFormed(line) == line.ok /\ Spaces(line.text) # {}

\* the characters after the first space, up to the next space or the end of the line
SecondField(text) ==
    LET first == CHOOSE k \in Spaces(text) : \A j \in Spaces(text) : k <= j
        later == {k \in Spaces(text) : k > first} \cup {Len(text) + 1}
        stop  == CHOOSE k \in later : \A j \in later : k <= j
    IN  SubSeq(text, first + 1, stop - 1)

Matching(line) ==
    /\ Len(SecondField(line.text)) >= Len(inv.prefix)
    /\ \A k \in 1..Len(inv.prefix) : SecondField(line.text)[k] = inv.prefix[k]

\* C10: a call that succeeds returns the second fields of the lines whose second
\* field begins with the prefix, in table order with duplicates kept, and every line
\* of the table is well formed; a call on a table with a line that cannot be read or
\* has fewer than two fields fails and returns no list.
C10_ListsMatchingTargets ==
    (inv.on /\ inv.ret.done) =>
        /\ inv.ret.ok =>
              LET matching == SelectSeq(inv.table, Matching)
              IN  /\ \A k \in 1..Len(inv.table) : WellFormed(inv.table[k])
                  /\ inv.ret.val = [k \in 1..Len(matching) |-> SecondField(matching[k].text)]
        /\ (\E k \in 1..Len(inv.table) : ~WellFormed(inv.table[k])) =>
              /\ ~inv.ret.ok
              /\ "val" \notin DOMAIN inv.ret

C10_Witness ==
    /\ inv.on /\ inv.ret.done /\ inv.ret.ok
    /\ Len(inv.table) = 3
    /\ Len(inv.ret.val) = 2
    /\ inv.ret.val[1] = inv.ret.val[2]
    /\ inv.ret.val[1] = <<"/", "n", "/", "x">>

C10_WitnessMalformed ==
    /\ inv.on /\ inv.ret.done /\ ~inv.ret.ok
    /\ Len(inv.table) = 2
    /\ WellFormed(inv.table[1])
    /\ ~Matching(inv.table[1])
    /\ inv.table[2] = Readable(<<"d">>)

\* the input is one of the paths of sibling links
FlatInput == walk.tab = FlatLayout /\ \E n \in FlatLens : walk.path = FlatPath(n)

\* C24: resolve_abs terminates on every finite path and every finite symlink layout,
\* cyclic or not, with a path or with the FilesystemLoop error; the calls are never
\* nested beyond link level 256; and a path of many symlinks that are not nested in one
\* another, each followed at level 1, is not rejected however many they are.
C24_TerminatesWithinDepth ==
    /\ [](walk.on =>
            /\ Len(walk.stack) <= 257
            /\ \A i \in 1..Len(walk.stack) : walk.stack[i].level <= 256
            /\ walk.result \in {"running", "Ok", "FilesystemLoop"}
            /\ FlatInput =>
                  /\ Len(walk.stack) <= 2
                  /\ walk.result # "FilesystemLoop")
    /\ <>(walk.on /\ walk.result \in {"Ok", "FilesystemLoop"})

\* 257 sibling links, more than the level limit, were followed and the call returned Ok
C24_Witness ==
    /\ walk.on
    /\ walk.path = FlatPath(257)
    /\ walk.tab = FlatLayout
    /\ walk.result = "Ok"
    /\ walk.acc = SEED_BOX

\* a cyclic layout ran into the limit with 257 calls nested
C24_WitnessCycle ==
    /\ walk.on
    /\ CyclicInput
    /\ Len(walk.stack) = 257
    /\ walk.stack[257].level = 256

\* the steps of create_rootfs up to the end of the loop over the entries
InEntryLoop == {"c_mkdir_newroot", "c_read_dir", "c_entry", "c_bind", "c_remount"}

\* an entry of the image that a decode of create_rootfs rejects
Rejected(name) ==
    \/ ~from_utf8(file_name(name))
    \/ name \notin ReservedNames /\ ~from_utf8(EntryPath(loc.root, name))

\* create_rootfs never gets past an entry that a decode rejects: it ends with the
\* error, nothing is made under /newroot for the entry, under no name
CreateRejectsNotUtf8 ==
    /\ (\E name \in DOMAIN image : Rejected(name)) =>
          /\ pc \in InEntryLoop \cup {"failed"}
          /\ ~(pc = "c_entry" /\ loc.todo = {})
          /\ \A name \in DOMAIN image :
                Rejected(name) =>
                    /\ Under(name) \notin DOMAIN files
                    /\ ~MountedAt(Under(name))
                    /\ loc.cur # name
    /\ (pc = "failed" /\ hist.err = "NotUtf8") =>
          /\ hist.failedAt = "c_entry"
          /\ \E name \in DOMAIN image : Rejected(name)

\* the names in /newroot/dev/pts
PtsEntries == DOMAIN sbs[SbAt(mounts, PTS)].entries

\* C25 as claimed: wherever create_rootfs or reset decodes a file name or path, a name
\* that is not UTF-8 makes the operation fail with an error, never replaced by a lossy
\* substitute and never silently skipped: for every top-level entry of the image in
\* create_rootfs, and for the entries of /newroot/dev/pts in reset.
C25_NotUtf8AlwaysFails ==
    /\ CreateRejectsNotUtf8
    /\ ResetOk => \A name \in PtsEntries : from_utf8(name)

\* C25 as amended: create_rootfs fails on a name or path that is not UTF-8; reset
\* passes over an entry of /newroot/dev/pts whose name is not UTF-8 as it passes over
\* any name that is no number: the entry stays, nothing is removed under a substitute
\* name, and reset does not fail because of it.
C25_OnlyCreateRejects ==
    /\ CreateRejectsNotUtf8
    /\ \A name \in hist.freed : from_utf8(name) /\ parses_u64(name)
    /\ hist.resets > 0 => hist.err # "NotUtf8"
    /\ JustReset => \A name \in PtsEntries : ~(from_utf8(name) /\ parses_u64(name))

\* create_rootfs ended with the error on the entry caf\xE9, with bin cloned already
C25_Witness ==
    /\ pc = "failed"
    /\ hist.err = "NotUtf8"
    /\ "caf_E9" \in DOMAIN image
    /\ MountedAt(Under("bin"))
    /\ loc.root = ImageRoot

\* create_rootfs ended with the error on the path of an entry under a root that is not
\* UTF-8
C25_WitnessRoot ==
    /\ pc = "failed"
    /\ hist.err = "NotUtf8"
    /\ loc.root = ImageRootLatin1
    /\ \A name \in DOMAIN image : from_utf8(file_name(name))

\* reset returned Ok, the pseudo-terminal 0 removed, with the entry 1\xFF left in
\* /newroot/dev/pts
C25_ResetSkippedNotUtf8 ==
    /\ JustReset
    /\ <<"0">> \in hist.freed
    /\ <<"1", "xFF">> \in PtsEntries

====
